---- MODULE Spec2Model ----
(***************************************************************************)
(* Semantic page search of the vibe browser extension.                     *)
(*                                                                         *)
(* The model follows the session controller of the content script         *)
(* (semantic-search.ts in its latest form), the embedding service it       *)
(* imports (services/embedding-service.ts) and the highlighter that marks  *)
(* results in the host page.  JavaScript runs one task at a time: every    *)
(* action below is one task (an event handler, a message callback, a       *)
(* timer) or one synchronous continuation taken from the queue `jobs`,     *)
(* which is drained before the next task starts.                           *)
(***************************************************************************)
EXTENDS Integers, Sequences, FiniteSets, TLC

(***************************************************************************)
(* Bounds of the model.                                                    *)
(***************************************************************************)
MaxShows == 2        \* times the search UI is opened
MaxSearches == 1     \* query submissions that pass validation
MaxSpans == 3        \* highlight markers on the page before a further search or navigation step is explored
MaxReadySearches == 2  \* query submissions that pass validation in a session that is ready
MaxPieces == 2       \* chunks of a short page
MaxSignals == 3      \* progress signals of one model load
MaxStyles == 4       \* style elements of single markers in the head before a further navigation step is explored

(***************************************************************************)
(* Program constants.                                                      *)
(***************************************************************************)
batchSize == 5
KeyPrefixLen == 100
\* a validation that lets the two characters of "hi" through
MinQueryLengthTwo == Len(<<"h", "i">>)
MinQueryLength == 3
MaxCandidates == 30
MaxResults == 10
MatchPrefixLen == 100

(***************************************************************************)
(* Text.  A text is a sequence of one-character strings.                   *)
(***************************************************************************)
IsWS(c) == c = " "

RECURSIVE TrimLeft(_)
TrimLeft(s) == IF s # <<>> /\ IsWS(Head(s)) THEN TrimLeft(Tail(s)) ELSE s

RECURSIVE TrimRight(_)
TrimRight(s) ==
    IF s # <<>> /\ IsWS(s[Len(s)]) THEN TrimRight(SubSeq(s, 1, Len(s) - 1)) ELSE s

\* String.prototype.trim
Trim(s) == TrimRight(TrimLeft(s))

\* text.replace(/\s+/g, ' ')
RECURSIVE CollapseWS(_)
CollapseWS(s) ==
    IF Len(s) <= 1 THEN s
    ELSE LET half == Len(s) \div 2
             left == CollapseWS(SubSeq(s, 1, half))
             right == CollapseWS(SubSeq(s, half + 1, Len(s)))
         IN  IF IsWS(left[Len(left)]) /\ IsWS(Head(right)) THEN left \o Tail(right)
             ELSE left \o right

\* text.slice(0, n) / text.substring(0, n)
Prefix(s, n) == SubSeq(s, 1, IF Len(s) < n THEN Len(s) ELSE n)

StartsWithAt(hay, needle, i) ==
    /\ i + Len(needle) <= Len(hay)
    /\ SubSeq(hay, i + 1, i + Len(needle)) = needle

\* String.prototype.indexOf: 0-based position of the first occurrence, or -1
IndexOf(hay, needle) ==
    LET hits == {i \in 0..Len(hay) : StartsWithAt(hay, needle, i)}
    IN  IF hits = {} THEN -1 ELSE CHOOSE i \in hits : \A j \in hits : i <= j

\* String.prototype.includes
Includes(hay, needle) == IndexOf(hay, needle) # -1

Abs(n) == IF n < 0 THEN -n ELSE n

(***************************************************************************)
(* The host page.  Every content element is a paragraph of its own parent  *)
(* (so the segmenter keeps them apart) and holds a sequence of tokens:     *)
(* characters and the start and end tags of highlight markers.             *)
(***************************************************************************)
Hosts == <<"p1", "p2">>
HostSet == {"p1", "p2"}
HostDepth == 3
HostTop(h) == IF h = "p1" THEN 100 ELSE 200
\* the second paragraph has a background colour of its own, set inline
HostBackground == {"p2"}

TextA == <<"a", "&", "a">>
TextB == <<"b", " ", "<">>

\* The pages explored: two different paragraphs, or the same text twice.
Pages == {"distinct", "duplicate"}
HostText(pg, h) == IF h = "p1" \/ pg = "duplicate" THEN TextA ELSE TextB

\* a page whose second paragraph is laid out with no height
COLLAPSED == "collapsed"
\* getBoundingClientRect of a paragraph, and of a marker inside it, has no size
ZeroSize(pg, h) == pg = COLLAPSED /\ h = "p2"

Ch(c) == [t |-> "char", c |-> c]
OpenTag(cls) == [t |-> "open", c |-> cls]
CloseTag == [t |-> "close", c |-> ""]
CharTokens(s) == [i \in 1..Len(s) |-> Ch(s[i])]

HIGHLIGHT == "vibe-semantic-highlight"
ACTIVE == "vibe-semantic-highlight-active"

\* Node.textContent
RECURSIVE TextContent(_)
TextContent(toks) ==
    IF toks = <<>> THEN <<>>
    ELSE IF Head(toks).t = "char" THEN <<Head(toks).c>> \o TextContent(Tail(toks))
    ELSE TextContent(Tail(toks))

\* index of the end tag matching the start tag at index i
RECURSIVE MatchFrom(_, _, _)
MatchFrom(toks, j, depth) ==
    IF j > Len(toks) THEN 0
    ELSE IF toks[j].t = "open" THEN MatchFrom(toks, j + 1, depth + 1)
    ELSE IF toks[j].t = "close"
         THEN IF depth = 1 THEN j ELSE MatchFrom(toks, j + 1, depth - 1)
    ELSE MatchFrom(toks, j + 1, depth)
MatchClose(toks, i) == MatchFrom(toks, i + 1, 1)

\* number of markers that enclose token i
Nesting(toks, i) ==
    Cardinality({j \in 1..(i - 1) : toks[j].t = "open"})
    - Cardinality({j \in 1..(i - 1) : toks[j].t = "close"})

\* a well-nested run of tokens: a range that selects no element partially
RECURSIVE BalancedFrom(_, _)
BalancedFrom(toks, depth) ==
    IF toks = <<>> THEN depth = 0
    ELSE IF Head(toks).t = "open" THEN BalancedFrom(Tail(toks), depth + 1)
    ELSE IF Head(toks).t = "close"
         THEN depth > 0 /\ BalancedFrom(Tail(toks), depth - 1)
    ELSE BalancedFrom(Tail(toks), depth)
Balanced(toks) == BalancedFrom(toks, 0)

(***************************************************************************)
(* Element.innerHTML and Range.createContextualFragment: the markup of a   *)
(* marker's content is written with character references and parsed back. *)
(***************************************************************************)
EscapeChar(c) ==
    IF c = "&" THEN <<Ch("&"), Ch("a"), Ch("m"), Ch("p"), Ch(";")>>
    ELSE IF c = "<" THEN <<Ch("&"), Ch("l"), Ch("t"), Ch(";")>>
    ELSE IF c = ">" THEN <<Ch("&"), Ch("g"), Ch("t"), Ch(";")>>
    ELSE <<Ch(c)>>

RECURSIVE SerializeHTML(_)
SerializeHTML(toks) ==
    IF toks = <<>> THEN <<>>
    ELSE IF Head(toks).t = "char"
         THEN EscapeChar(Head(toks).c) \o SerializeHTML(Tail(toks))
    ELSE <<Head(toks)>> \o SerializeHTML(Tail(toks))

CharRef(name, c) == [name |-> CharTokens(name), c |-> c]
CharRefs == { CharRef(<<"&", "a", "m", "p", ";">>, "&"),
              CharRef(<<"&", "l", "t", ";">>, "<"),
              CharRef(<<"&", "g", "t", ";">>, ">") }

RECURSIVE ParseHTML(_)
ParseHTML(html) ==
    IF html = <<>> THEN <<>>
    ELSE LET refs == {r \in CharRefs : Len(r.name) <= Len(html)
                                       /\ SubSeq(html, 1, Len(r.name)) = r.name}
         IN  IF refs # {}
             THEN LET r == CHOOSE x \in refs : TRUE
                  IN  <<Ch(r.c)>> \o ParseHTML(SubSeq(html, Len(r.name) + 1, Len(html)))
             ELSE <<Head(html)>> \o ParseHTML(Tail(html))

(***************************************************************************)
(* removeHighlights.  querySelectorAll returns the markers in document     *)
(* order; each is replaced by a fragment parsed from its innerHTML.  A     *)
(* marker nested in another one is detached together with its parent, so   *)
(* its own replacement happens outside the document and the copy that the  *)
(* parser made of it stays in the page.                                    *)
(***************************************************************************)
\* a removal that replaces each marker by nothing, so the marked text is lost
RECURSIVE UnwrapLosingText(_)
UnwrapLosingText(toks) ==
    IF toks = <<>> THEN <<>>
    ELSE IF Head(toks).t = "open"
         THEN UnwrapLosingText(SubSeq(toks, MatchClose(toks, 1) + 1, Len(toks)))
    ELSE <<Head(toks)>> \o UnwrapLosingText(Tail(toks))

RECURSIVE UnwrapMarkers(_)
UnwrapMarkers(toks) ==
    IF toks = <<>> THEN <<>>
    ELSE IF Head(toks).t = "open"
         THEN LET j == MatchClose(toks, 1)
              IN  ParseHTML(SerializeHTML(SubSeq(toks, 2, j - 1)))
                  \o UnwrapMarkers(SubSeq(toks, j + 1, Len(toks)))
    ELSE <<Head(toks)>> \o UnwrapMarkers(Tail(toks))

removeHighlights(d) == [h \in HostSet |-> UnwrapMarkers(d[h])]

(***************************************************************************)
(* highlightElement: the position of the text is found in the white-space  *)
(* normalized text of the element, then counted off over the text nodes of *)
(* the element, and the range is wrapped with Range.surroundContents,      *)
(* which throws when the range selects an element partially.               *)
(***************************************************************************)
CharPositions(toks) ==
    LET idx == {i \in 1..Len(toks) : toks[i].t = "char"}
        RECURSIVE Sorted(_)
        Sorted(S) == IF S = {} THEN <<>>
                     ELSE LET m == CHOOSE x \in S : \A y \in S : x <= y
                          IN  <<m>> \o Sorted(S \ {m})
    IN  Sorted(idx)

InsertMarker(toks, from, to, cls) ==
    SubSeq(toks, 1, from - 1) \o <<OpenTag(cls)>> \o SubSeq(toks, from, to)
    \o <<CloseTag>> \o SubSeq(toks, to + 1, Len(toks))

highlightElement(toks, textToHighlight, isActive) ==
    LET highlightClass == IF isActive THEN ACTIVE ELSE HIGHLIGHT
        normalizedHighlight == Trim(CollapseWS(textToHighlight))
        normalizedText == CollapseWS(TextContent(toks))
        textIndex == IndexOf(normalizedText, normalizedHighlight)
        pos == CharPositions(toks)
    IN  IF normalizedHighlight = <<>> \/ textIndex = -1 THEN toks
        ELSE IF textIndex + Len(normalizedHighlight) > Len(pos) THEN toks
        ELSE LET from == pos[textIndex + 1]
                 to == pos[textIndex + Len(normalizedHighlight)]
             IN  IF Balanced(SubSeq(toks, from, to))
                 THEN InsertMarker(toks, from, to, highlightClass)
                 ELSE toks

(***************************************************************************)
(* The embedding model.  Its output for a text is fixed by the model       *)
(* version; the vectors are small integer vectors, which cosineSimilarity  *)
(* normalises.                                                             *)
(***************************************************************************)
QueryA == <<"f", "o", "o">>        \* about the subject of TextA
QueryAB == <<"b", "a", "r">>       \* about both subjects
QueryShort == <<"h", "i">>         \* below the minimum query length
QueryPadded == <<" ", "h", "i">>   \* below it once trimmed
Queries == {QueryA, QueryAB, QueryShort, QueryPadded}

\* two texts that differ after their first 100 characters only
LongText(last) == [i \in 1..(KeyPrefixLen + 1) |-> IF i <= KeyPrefixLen THEN "x" ELSE last]
LongA == LongText("a")             \* about the subject of TextA
LongB == LongText("b")             \* about the subject of TextB
LongQueries == {LongA, LongB}

ModelOutput(text) ==
    IF text = TextA \/ text = QueryA \/ text = LongA THEN <<1, 0>>
    ELSE IF text = TextB \/ text = LongB THEN <<0, 1>>
    ELSE <<1, 1>>

\* getCacheKey: the model id and the first 100 characters, white space collapsed
getCacheKey(text) == CollapseWS(Prefix(text, KeyPrefixLen))

(***************************************************************************)
(* cosineSimilarity, kept exact: the score dot / sqrt(normA * normB) is    *)
(* carried as the pair (dot, normA * normB) and compared by squaring.      *)
(***************************************************************************)
Dot(a, b) == a[1] * b[1] + a[2] * b[2]
cosineSimilarity(a, b) == [dot |-> Dot(a, b), nn |-> Dot(a, a) * Dot(b, b)]

\* a filter that keeps every chunk whose similarity is not negative
NotNegative(sc) == sc.dot >= 0

\* similarity > 0.3, where a zero vector has similarity 0
AboveThreshold(sc) == sc.nn # 0 /\ sc.dot > 0 /\ 100 * sc.dot * sc.dot > 9 * sc.nn

Sign(n) == IF n > 0 THEN 1 ELSE IF n < 0 THEN -1 ELSE 0

\* s1 < s2 as real numbers
ScoreLess(s1, s2) ==
    LET z1 == IF s1.nn = 0 THEN 0 ELSE s1.dot
        z2 == IF s2.nn = 0 THEN 0 ELSE s2.dot
        n1 == IF s1.nn = 0 THEN 1 ELSE s1.nn
        n2 == IF s2.nn = 0 THEN 1 ELSE s2.nn
        l == Sign(z1) * z1 * z1 * n2
        r == Sign(z2) * z2 * z2 * n1
    IN  l < r

\* Array.prototype.sort is stable: x goes behind the entries that do not come after it
StableSort(xs, Before(_, _)) ==
    LET RECURSIVE InsertSorted(_, _)
        InsertSorted(x, sorted) ==
            IF sorted = <<>> THEN <<x>>
            ELSE IF Before(x, Head(sorted)) THEN <<x>> \o sorted
            ELSE <<Head(sorted)>> \o InsertSorted(x, Tail(sorted))
        RECURSIVE Sort(_)
        Sort(ys) ==
            IF ys = <<>> THEN <<>>
            ELSE InsertSorted(ys[Len(ys)], Sort(SubSeq(ys, 1, Len(ys) - 1)))
    IN  Sort(xs)

\* Array.prototype.filter
SelectSeqBy(xs, Keep(_)) ==
    LET RECURSIVE Sel(_)
        Sel(ys) ==
            IF ys = <<>> THEN <<>>
            ELSE (IF Keep(Head(ys)) THEN <<Head(ys)>> ELSE <<>>) \o Sel(Tail(ys))
    IN  Sel(xs)

(***************************************************************************)
(* Resolution of a chunk to a live element.  The elements of the page are  *)
(* the content paragraphs and the markers inside them, in document order.  *)
(* The ancestors of a paragraph hold the same or more text at a smaller    *)
(* depth, so they never win against the paragraph and are left out.        *)
(***************************************************************************)
RECURSIVE MarkersOf(_, _, _)
MarkersOf(h, toks, i) ==
    IF i > Len(toks) THEN <<>>
    ELSE IF toks[i].t = "open"
         THEN <<[ref |-> "span", host |-> h,
                 text |-> Trim(TextContent(SubSeq(toks, i, MatchClose(toks, i)))),
                 depth |-> HostDepth + 1 + Nesting(toks, i)]>>
              \o MarkersOf(h, toks, i + 1)
    ELSE MarkersOf(h, toks, i + 1)

ElementsOf(d, h) ==
    <<[ref |-> h, host |-> h, text |-> Trim(TextContent(d[h])), depth |-> HostDepth]>>
    \o MarkersOf(h, d[h], 1)

\* document.querySelectorAll('body *') outside the overlay, with some text
textElements(d) ==
    LET IsText(el) == Len(el.text) > 0
    IN  SelectSeqBy(ElementsOf(d, Hosts[1]) \o ElementsOf(d, Hosts[2]), IsText)

\* getElementDepth is the field depth of an element
findBestMatch(elements, targetText) ==
    LET Better(a, b) ==
            LET aLengthDiff == Abs(Len(a.text) - Len(targetText))
                bLengthDiff == Abs(Len(b.text) - Len(targetText))
            IN  IF aLengthDiff # bLengthDiff THEN aLengthDiff < bLengthDiff
                ELSE b.depth - a.depth < 0
        sortedElements == StableSort(elements, Better)
    IN  sortedElements[1]

NoElement == "null"
DetachedMarker == "span"

\* isElementVisible of an element of the page: it is connected; it has a size
isElementVisible(pg, el) == ~ZeroSize(pg, el.host)

\* findAndValidateElements, for one result, on the page after removeHighlights
ResolveResult(pg, d, result) ==
    LET resultText == Trim(result.chunk.text)
        Matches(el) == Includes(el.text, Prefix(resultText, MatchPrefixLen))
        matches == SelectSeqBy(textElements(d), Matches)
    IN  IF matches = <<>> THEN result
        ELSE LET bestMatch == findBestMatch(matches, resultText)
                 visible == isElementVisible(pg, bestMatch)
             IN  [result EXCEPT !.element = bestMatch.ref,
                                !.visible = visible,
                                !.verticalPosition =
                                    IF visible THEN HostTop(bestMatch.host) ELSE 0,
                                !.host = bestMatch.host]

findAndValidateElements(pg, d, results) ==
    [i \in 1..Len(results) |-> ResolveResult(pg, d, results[i])]

(***************************************************************************)
(* applyHighlights.  A result that was resolved to a marker holds a node   *)
(* that removeHighlights has detached by now, so marking it changes        *)
(* nothing in the page.                                                    *)
(***************************************************************************)
RECURSIVE HighlightFrom(_, _, _, _)
HighlightFrom(d, results, i, activeIndex) ==
    IF i > Len(results) THEN d
    ELSE LET r == results[i]
             d2 == IF r.element \in HostSet /\ r.visible
                   THEN [d EXCEPT ![r.element] =
                            highlightElement(d[r.element], r.chunk.text, i - 1 = activeIndex)]
                   ELSE d
         IN  HighlightFrom(d2, results, i + 1, activeIndex)

applyHighlights(d, results, activeIndex) ==
    HighlightFrom(removeHighlights(d), results, 1, activeIndex)

\* highlightElement, line 1683: the elements it sets data-vibe-highlight-attempted on
AttemptedBy(results) ==
    {results[i].element : i \in {k \in 1..Len(results) :
                                    results[k].element \in HostSet /\ results[k].visible}}

\* highlightElement, lines 1801-1803: a style element is appended to the head
\* for every marker that surroundContents has put in
RECURSIVE StylesFrom(_, _, _, _)
StylesFrom(d, results, i, activeIndex) ==
    IF i > Len(results) THEN 0
    ELSE LET r == results[i]
             d2 == IF r.element \in HostSet /\ r.visible
                   THEN [d EXCEPT ![r.element] =
                            highlightElement(d[r.element], r.chunk.text, i - 1 = activeIndex)]
                   ELSE d
         IN  (IF d2 # d THEN 1 ELSE 0) + StylesFrom(d2, results, i + 1, activeIndex)

StylesAdded(d, results, activeIndex) ==
    StylesFrom(removeHighlights(d), results, 1, activeIndex)

(***************************************************************************)
(* performSemanticSearch after the query embedding has arrived: rank the   *)
(* chunks that have an embedding, resolve the best 30, keep the visible    *)
(* ones, order them top to bottom and keep 10.                             *)
(***************************************************************************)
\* a ranking that keeps the chunks above the threshold in chunk order
RankUnsorted(queryEmbedding, chunks, embeddings) ==
    LET scored == [i \in 1..Len(chunks) |->
                     [chunk |-> chunks[i], element |-> NoElement, host |-> NoElement,
                      score |-> IF chunks[i].id \in DOMAIN embeddings
                                THEN cosineSimilarity(queryEmbedding, embeddings[chunks[i].id])
                                ELSE [dot |-> 0, nn |-> 0],
                      verticalPosition |-> 0, visible |-> FALSE]]
        Retained(r) == r.chunk.id \in DOMAIN embeddings /\ AboveThreshold(r.score)
    IN  SelectSeqBy(scored, Retained)

RankChunks(queryEmbedding, chunks, embeddings) ==
    LET scored == [i \in 1..Len(chunks) |->
                     [chunk |-> chunks[i], element |-> NoElement, host |-> NoElement,
                      score |-> IF chunks[i].id \in DOMAIN embeddings
                                THEN cosineSimilarity(queryEmbedding, embeddings[chunks[i].id])
                                ELSE [dot |-> 0, nn |-> 0],
                      verticalPosition |-> 0, visible |-> FALSE]]
        Retained(r) == r.chunk.id \in DOMAIN embeddings /\ AboveThreshold(r.score)
        ByScore(a, b) == ScoreLess(b.score, a.score)
    IN  StableSort(SelectSeqBy(scored, Retained), ByScore)

\* a search that keeps the resolved results in the order of the ranking
SearchResultsByScore(pg, d, queryEmbedding, chunks, embeddings) ==
    LET potentialMatches == RankChunks(queryEmbedding, chunks, embeddings)
        candidates == findAndValidateElements(pg, d, Prefix(potentialMatches, MaxCandidates))
        Valid(r) == r.element # NoElement /\ r.visible
    IN  Prefix(SelectSeqBy(candidates, Valid), MaxResults)

SearchResults(pg, d, queryEmbedding, chunks, embeddings) ==
    LET potentialMatches == RankChunks(queryEmbedding, chunks, embeddings)
        candidates == findAndValidateElements(pg, d, Prefix(potentialMatches, MaxCandidates))
        Valid(r) == r.element # NoElement /\ r.visible
        ByPosition(a, b) == a.verticalPosition < b.verticalPosition
        sortedByPosition == StableSort(SelectSeqBy(candidates, Valid), ByPosition)
    IN  Prefix(sortedByPosition, MaxResults)

\* a page whose paragraphs are longer than maxChunkLength: processChunks cuts
\* each into PiecesPerHost chunks, for which the paragraph's text stands here
LONG == "long"
PiecesPerHost == 3

\* a page none of whose texts reaches minChunkLength: processChunks returns no chunk
EMPTY == "empty"

\* extractTextChunks: the chunks of every content paragraph in document order,
\* with ids that are new on every call
extractTextChunks(pg, d, generation) ==
    LET n == IF pg = LONG THEN PiecesPerHost ELSE IF pg = EMPTY THEN 0 ELSE 1
    IN  [i \in 1..(n * Len(Hosts)) |->
            LET h == Hosts[((i - 1) \div n) + 1]
            IN  [id |-> <<generation, i>>, text |-> Trim(TextContent(d[h])), element |-> h]]

IsOpenTag(tok) == tok.t = "open"
MarkerCount(d) ==
    Len(SelectSeq(d[Hosts[1]], IsOpenTag)) + Len(SelectSeq(d[Hosts[2]], IsOpenTag))

(***************************************************************************)
(* State.                                                                  *)
(***************************************************************************)
VARIABLES
    page,                       \* which host page this is
    dom,                        \* the content of every paragraph of the host page
    hostAttempted,              \* the paragraphs that carry data-vibe-highlight-attempted
    inlineBackground,           \* the paragraphs that carry an inline background-color
    highlightStyles,            \* style#vibe-semantic-highlight-styles is in the head
    spanStyles,                 \* number of style elements in the head written for single markers
    \* semantic-search.ts
    isSearchVisible, isSearching, isEmbeddingReady,
    pageChunks, chunkEmbeddings,
    currentResults, currentResultIndex, currentQuery,
    modelLoadStarted, modelLoadComplete, chunkExtractionComplete,
    embeddingGenerationProgress,
    statusIndicator,            \* text of .vibe-semantic-search-status
    embeddingStatus,            \* text of .vibe-semantic-search-embedding-status
    \* embedding-service.ts
    embeddingModel, isModelLoading, modelLoadingPromise,
    isBackgroundModelAvailable, checkedBackgroundModel, isUsingBackgroundModel,
    embeddingCache,
    currentModelLoadingProgress,
    modelLoadingProgressCallback,   \* a callback is registered
    \* asynchronous operations under way
    runs,                       \* the calls of startProcessingContent, oldest first
    searches,                   \* the calls of performSearch that passed validation
    calls,                      \* the calls of generateEmbedding that wait for the backend or the local model
    jobs,                       \* continuations that run before the next task
    \* what has happened so far
    epoch,                      \* how many times the search UI has been closed
    remoteFailed,               \* a call to the backend has failed
    embedRejected,              \* a GENERATE_EMBEDDING request has been rejected
    localFailed,                \* the local model has failed to load or to embed a text
    served,                     \* the texts generateEmbedding has returned a vector for
    reports,                    \* the values the progress callback received in the last step that
                                \* called it since progress tracking was reset
    signalCount,                \* progress signals of the model load under way
    backendReady,               \* the backend has reported that its model is loaded
    \* text-chunker.ts
    segmentation,               \* the call of processChunks that is followed step by step
    grouping,                   \* the grouping of raw chunks by processChunks that is followed
    \* the message channel of the extension
    channel                     \* the embed requests sent and what the listeners have done with them

controllerVars == <<isSearchVisible, isSearching, isEmbeddingReady, pageChunks,
                    chunkEmbeddings, currentResults, currentResultIndex, currentQuery,
                    modelLoadStarted, modelLoadComplete, chunkExtractionComplete,
                    embeddingGenerationProgress, statusIndicator, embeddingStatus>>
providerVars == <<embeddingModel, isModelLoading, modelLoadingPromise,
                  isBackgroundModelAvailable, checkedBackgroundModel,
                  isUsingBackgroundModel, embeddingCache>>
taskVars == <<runs, searches, calls, jobs>>
historyVars == <<epoch, remoteFailed, embedRejected, localFailed, served>>
progressVars == <<currentModelLoadingProgress, modelLoadingProgressCallback, reports,
                  signalCount, backendReady>>
hostVars == <<hostAttempted, inlineBackground, highlightStyles, spanStyles>>
sessionVars == <<page, dom, hostVars, controllerVars, providerVars, progressVars, taskVars,
                 historyVars>>
vars == <<sessionVars, segmentation, grouping, channel>>

NoId == <<0, 0>>
Job(k, t, n, id, text, ok) ==
    [k |-> k, t |-> t, n |-> n, id |-> id, text |-> text, ok |-> ok, vec |-> <<>>]
\* a call of generateEmbedding returns: with the vector, or rejected
SettledJob(t, n, id, text, ok, vec) ==
    [k |-> "settled", t |-> t, n |-> n, id |-> id, text |-> text, ok |-> ok,
     vec |-> IF ok THEN vec ELSE <<>>]
Call(t, n, id, text, stage) == [t |-> t, n |-> n, id |-> id, text |-> text, stage |-> stage]

\* the extension has been loaded into the page and the search UI is closed
Closed ==
    /\ dom = [h \in HostSet |-> CharTokens(HostText(page, h))]
    /\ hostAttempted = {} /\ inlineBackground = HostBackground
    /\ highlightStyles = FALSE /\ spanStyles = 0
    /\ isSearchVisible = FALSE /\ isSearching = FALSE /\ isEmbeddingReady = FALSE
    /\ pageChunks = <<>> /\ chunkEmbeddings = <<>>
    /\ currentResults = <<>> /\ currentResultIndex = -1 /\ currentQuery = <<>>
    /\ modelLoadStarted = FALSE /\ modelLoadComplete = FALSE
    /\ chunkExtractionComplete = FALSE /\ embeddingGenerationProgress = 0
    /\ statusIndicator = "" /\ embeddingStatus = "Embedding website..."
    /\ embeddingModel = FALSE /\ isModelLoading = FALSE /\ modelLoadingPromise = "null"
    /\ isBackgroundModelAvailable = FALSE /\ checkedBackgroundModel = FALSE
    /\ isUsingBackgroundModel = FALSE /\ embeddingCache = <<>>
    /\ currentModelLoadingProgress = 0 /\ modelLoadingProgressCallback = FALSE
    /\ reports = <<>> /\ signalCount = 0 /\ backendReady = FALSE
    /\ runs = <<>> /\ searches = <<>> /\ calls = {} /\ jobs = <<>>
    /\ epoch = 0 /\ remoteFailed = FALSE /\ embedRejected = FALSE /\ localFailed = FALSE
    /\ served = {}

\* no call of processChunks is followed
NotSegmenting == [pc |-> "none"]
\* processChunks is not followed, and no message channel is
NotGrouping == [pc |-> "none"]
NoChannel == [pc |-> "none"]
Aside == grouping = NotGrouping /\ channel = NoChannel

Init == page \in Pages /\ Closed /\ segmentation = NotSegmenting /\ Aside

Idle == jobs = <<>>            \* no continuation is pending: the next task may start
Min(a, b) == IF a < b THEN a ELSE b

(***************************************************************************)
(* Loading progress.  A progress signal of pipeline() is a number, in      *)
(* thousandths here, or something that is not a number.                    *)
(***************************************************************************)
Signal(nan, p) == [nan |-> nan, p |-> p]
ProgressSignals ==
    {Signal(TRUE, 0), Signal(FALSE, -1000), Signal(FALSE, 204), Signal(FALSE, 500),
     Signal(FALSE, 1000)}

\* Math.round(progress * 100) of a progress that is not negative
RoundPercent(p) == (p + 5) \div 10

\* an update that lets a reported progress of 1 through as 100
updateUncapped(current, progress) ==
    IF progress.nan \/ progress.p < 0 THEN Min(100, current + 3)
    ELSE Min(100, RoundPercent(progress.p))

\* updateModelLoadingProgress: the new value of currentModelLoadingProgress
updateModelLoadingProgress(current, progress) ==
    LET estimated == IF current < 30 THEN current + 3
                     ELSE IF current < 70 THEN current + 2
                     ELSE current + 1
        value == IF progress.nan \/ progress.p < 0 THEN estimated
                 ELSE Min(99, RoundPercent(progress.p))
    IN  Min(99, value)

\* modelLoadingProgressCallback(value), when a callback is registered
Reported(value) == IF modelLoadingProgressCallback THEN <<value>> ELSE reports

(***************************************************************************)
(* What removeHighlights and highlightElement do outside the text of the   *)
(* paragraphs.  removeHighlights, lines 1323-1345, takes the attribute and *)
(* the inline background-color from every element that carries the         *)
(* attribute; its selector style[id^="vibe-highlight-style"], line 1348,   *)
(* matches no style element, because highlightElement gives none an id and *)
(* ensureHighlightStyles uses the id vibe-semantic-highlight-styles.       *)
(***************************************************************************)
attributesRemoved ==
    /\ hostAttempted' = {}
    /\ inlineBackground' = inlineBackground \ hostAttempted
    /\ UNCHANGED <<highlightStyles, spanStyles>>

(***************************************************************************)
(* showSemanticSearch, with the part of startProcessingContent that runs   *)
(* before its first await: the state is reset, the page is segmented and   *)
(* the model is asked for.                                                 *)
(***************************************************************************)
showSemanticSearch ==
    /\ Idle
    /\ ~isSearchVisible
    /\ Len(runs) < MaxShows
    /\ isSearchVisible' = TRUE
    \* resetProcessState
    /\ isEmbeddingReady' = FALSE
    /\ modelLoadComplete' = FALSE
    /\ embeddingGenerationProgress' = 0
    \* startProcessingContent
    /\ pageChunks' = extractTextChunks(page, dom, Len(runs) + 1)
    /\ chunkExtractionComplete' = TRUE
    /\ modelLoadStarted' = TRUE
    /\ embeddingStatus' = "Loading AI model..."
    /\ runs' = Append(runs, [pc |-> "getModel", chunks |-> <<>>, i |-> 0, outstanding |-> 0,
                             epoch |-> epoch])
    /\ jobs' = <<Job("getModel", "run", Len(runs) + 1, NoId, <<>>, TRUE)>>
    /\ UNCHANGED <<segmentation, grouping, channel, progressVars, page, dom, hostVars, isSearching, chunkEmbeddings, currentResults,
                   currentResultIndex, currentQuery, statusIndicator,
                   providerVars, searches, calls>>
    /\ UNCHANGED historyVars

(***************************************************************************)
(* hideSemanticSearch: clearResults, which removes the markers, and        *)
(* removeHighlights once more.                                             *)
(***************************************************************************)
hideSemanticSearch ==
    /\ Idle
    /\ isSearchVisible
    /\ isSearchVisible' = FALSE
    /\ currentResults' = <<>>
    /\ currentResultIndex' = -1
    /\ statusIndicator' = ""
    /\ dom' = removeHighlights(removeHighlights(dom))
    /\ attributesRemoved
    /\ UNCHANGED <<segmentation, grouping, channel, progressVars, page, isSearching, isEmbeddingReady, pageChunks, chunkEmbeddings,
                   currentQuery, modelLoadStarted, modelLoadComplete,
                   chunkExtractionComplete, embeddingGenerationProgress,
                   embeddingStatus, providerVars, taskVars>>
    /\ epoch' = epoch + 1
    /\ UNCHANGED <<remoteFailed, embedRejected, localFailed, served>>

(***************************************************************************)
(* getEmbeddingModel, called by startProcessingContent.                    *)
(***************************************************************************)
HeadIs(k) == jobs # <<>> /\ Head(jobs).k = k

\* lines 391-395: the backend is asked when it has not been checked yet
getEmbeddingModel ==
    /\ HeadIs("getModel")
    /\ LET r == Head(jobs).n IN
       IF ~checkedBackgroundModel
       THEN /\ runs' = [runs EXCEPT ![r].pc = "debug"]     \* DEBUG_CHECK is sent
            /\ jobs' = Tail(jobs)
       ELSE /\ runs' = runs
            /\ jobs' = <<Job("local", "run", r, NoId, <<>>, TRUE)>> \o Tail(jobs)
    \* registerModelLoadingProgressCallback, lines 341-354
    /\ modelLoadingProgressCallback' = TRUE
    /\ currentModelLoadingProgress' =
          IF isUsingBackgroundModel THEN 100 ELSE currentModelLoadingProgress
    /\ LET called == (IF currentModelLoadingProgress > 0
                      THEN <<currentModelLoadingProgress>> ELSE <<>>)
                     \o (IF isUsingBackgroundModel THEN <<100>> ELSE <<>>)
       IN  reports' = IF called = <<>> THEN reports ELSE called
    /\ UNCHANGED <<signalCount, backendReady>>
    /\ UNCHANGED <<segmentation, grouping, channel, page, dom, hostVars, controllerVars, embeddingModel, isModelLoading,
                   modelLoadingPromise, isBackgroundModelAvailable, checkedBackgroundModel,
                   isUsingBackgroundModel, embeddingCache, searches, calls>>
    /\ UNCHANGED historyVars

\* the value checkBackgroundModel resolves to reaches getEmbeddingModel, lines 394-411
CheckReturns(r, available) ==
    /\ isBackgroundModelAvailable' = available
    /\ isUsingBackgroundModel' = (available \/ isUsingBackgroundModel)
    /\ jobs' = <<Job(IF available THEN "model" ELSE "local", "run", r, NoId, <<>>, TRUE)>>
    /\ currentModelLoadingProgress' = IF available THEN 100 ELSE currentModelLoadingProgress
    /\ reports' = IF available THEN Reported(100) ELSE reports
    /\ backendReady' = (backendReady \/ available)
    /\ UNCHANGED <<modelLoadingProgressCallback, signalCount>>

\* checkBackgroundModel: the reply to DEBUG_CHECK
debugReply(r) ==
    /\ Idle
    /\ r \in 1..Len(runs) /\ runs[r].pc = "debug"
    /\ IF checkedBackgroundModel
       THEN /\ CheckReturns(r, isBackgroundModelAvailable)
            /\ runs' = [runs EXCEPT ![r].pc = "checked"]
       ELSE /\ runs' = [runs EXCEPT ![r].pc = "storage"]  \* chrome.storage.local.get
            /\ UNCHANGED <<isBackgroundModelAvailable, isUsingBackgroundModel, jobs,
                           progressVars>>
    /\ UNCHANGED <<segmentation, grouping, channel, page, dom, hostVars, controllerVars, embeddingModel, isModelLoading,
                   modelLoadingPromise, checkedBackgroundModel, embeddingCache,
                   searches, calls>>
    /\ UNCHANGED historyVars

\* checkBackgroundModel: the stored readiness flag
storageReply(r, semanticModelReady) ==
    /\ Idle
    /\ r \in 1..Len(runs) /\ runs[r].pc = "storage"
    /\ IF semanticModelReady
       THEN /\ checkedBackgroundModel' = TRUE
            /\ CheckReturns(r, TRUE)
            /\ runs' = [runs EXCEPT ![r].pc = "checked"]
       ELSE /\ runs' = [runs EXCEPT ![r].pc = "status"]   \* GET_MODEL_STATUS is sent
            /\ UNCHANGED <<checkedBackgroundModel, isBackgroundModelAvailable,
                           isUsingBackgroundModel, jobs, progressVars>>
    /\ UNCHANGED <<segmentation, grouping, channel, page, dom, hostVars, controllerVars, embeddingModel, isModelLoading,
                   modelLoadingPromise, embeddingCache, searches, calls>>
    /\ UNCHANGED historyVars

\* checkBackgroundModel: the reply to GET_MODEL_STATUS
statusReply(r, reply) ==
    /\ Idle
    /\ r \in 1..Len(runs) /\ runs[r].pc = "status"
    /\ checkedBackgroundModel' = TRUE
    /\ CheckReturns(r, reply = "ready")
    /\ runs' = [runs EXCEPT ![r].pc = "checked"]
    /\ UNCHANGED <<segmentation, grouping, channel, page, dom, hostVars, controllerVars, embeddingModel, isModelLoading,
                   modelLoadingPromise, embeddingCache, searches, calls>>
    /\ remoteFailed' = (remoteFailed \/ reply = "lastError")
    /\ UNCHANGED <<embedRejected, localFailed>>
    /\ UNCHANGED <<epoch, served>>

\* getEmbeddingModel, line 432: progress tracking is reset when a load starts
loadStarted ==
    /\ currentModelLoadingProgress' = 0
    /\ reports' = <<>>
    /\ signalCount' = 0
    /\ UNCHANGED <<modelLoadingProgressCallback, backendReady>>

\* lines 413-458: the proxy, the loaded model, the load under way, or a new load
getLocalModel ==
    /\ HeadIs("local")
    /\ LET r == Head(jobs).n IN
       IF isUsingBackgroundModel \/ embeddingModel
       THEN /\ jobs' = <<Job("model", "run", r, NoId, <<>>, TRUE)>> \o Tail(jobs)
            /\ runs' = [runs EXCEPT ![r].pc = "checked"]
            /\ UNCHANGED <<isModelLoading, modelLoadingPromise, progressVars>>
       ELSE /\ jobs' = Tail(jobs)
            /\ runs' = [runs EXCEPT ![r].pc = "awaitLocal"]
            /\ isModelLoading' = TRUE
            /\ modelLoadingPromise' = "pending"
            /\ IF isModelLoading /\ modelLoadingPromise = "pending"
               THEN UNCHANGED progressVars
               ELSE loadStarted
    /\ UNCHANGED <<segmentation, grouping, channel, page, dom, hostVars, controllerVars, embeddingModel, isBackgroundModelAvailable,
                   checkedBackgroundModel, isUsingBackgroundModel, embeddingCache,
                   searches, calls>>
    /\ UNCHANGED historyVars

\* the runs and the calls that wait for the local model, as continuations in order
RECURSIVE WaitingRuns(_, _)
WaitingRuns(r, ok) ==
    IF r > Len(runs) THEN <<>>
    ELSE (IF runs[r].pc = "awaitLocal"
          THEN <<Job("model", "run", r, NoId, <<>>, ok)>> ELSE <<>>)
         \o WaitingRuns(r + 1, ok)

RECURSIVE SetToSeq(_)
SetToSeq(S) ==
    IF S = {} THEN <<>>
    ELSE LET x == CHOOSE y \in S : TRUE IN <<x>> \o SetToSeq(S \ {x})

Rejections(cs) ==
    LET sq == SetToSeq(cs)
    IN  [i \in 1..Len(sq) |-> SettledJob(sq[i].t, sq[i].n, sq[i].id, sq[i].text, FALSE, <<>>)]

\* the pipeline() promise of getEmbeddingModel settles, lines 460-480
localLoadDone(ok) ==
    /\ Idle
    /\ modelLoadingPromise = "pending"
    /\ embeddingModel' = ok
    /\ isModelLoading' = FALSE
    /\ modelLoadingPromise' = IF ok THEN "resolved" ELSE "null"
    /\ currentModelLoadingProgress' = IF ok THEN 100 ELSE currentModelLoadingProgress
    /\ reports' = IF ok THEN Reported(100) ELSE reports
    /\ UNCHANGED <<modelLoadingProgressCallback, signalCount, backendReady>>
    /\ runs' = [r \in 1..Len(runs) |->
                  IF runs[r].pc = "awaitLocal" THEN [runs[r] EXCEPT !.pc = "checked"]
                  ELSE runs[r]]
    /\ LET waiting == {c \in calls : c.stage = "awaitModel"} IN
       IF ok
       THEN /\ calls' = (calls \ waiting) \cup {[c EXCEPT !.stage = "infer"] : c \in waiting}
            /\ jobs' = WaitingRuns(1, TRUE)
       ELSE /\ calls' = calls \ waiting
            /\ jobs' = WaitingRuns(1, FALSE) \o Rejections(waiting)
    /\ UNCHANGED <<segmentation, grouping, channel, page, dom, hostVars, controllerVars, isBackgroundModelAvailable,
                   checkedBackgroundModel, isUsingBackgroundModel, embeddingCache,
                   searches>>
    /\ localFailed' = (localFailed \/ ~ok)
    /\ UNCHANGED <<epoch, remoteFailed, embedRejected, served>>

\* the calls of generateEmbedding of one batch of generateChunkEmbeddings
EmbedJobs(r, chunks, i) ==
    LET batch == SubSeq(chunks, i + 1, Min(i + batchSize, Len(chunks)))
    IN  [k \in 1..Len(batch) |-> Job("embed", "run", r, batch[k].id, batch[k].text, TRUE)]

(***************************************************************************)
(* startProcessingContent after getEmbeddingModel: with a model the chunk  *)
(* embeddings are emptied and the first batch is sent, lines 219-226 and   *)
(* 253-274; without one the error is shown, lines 240-243.                 *)
(***************************************************************************)
modelObtained ==
    /\ HeadIs("model")
    /\ LET r == Head(jobs).n IN
       IF ~Head(jobs).ok
       THEN /\ embeddingStatus' = "Error loading AI model"
            /\ runs' = [runs EXCEPT ![r].pc = "failed"]
            /\ jobs' = Tail(jobs)
            /\ UNCHANGED <<modelLoadComplete, chunkEmbeddings, isEmbeddingReady>>
       ELSE /\ modelLoadComplete' = TRUE
            /\ IF Len(pageChunks) > 0
               THEN /\ chunkEmbeddings' = <<>>
                    /\ embeddingStatus' = "Generating page embeddings..."
                    /\ runs' = [runs EXCEPT ![r] =
                                  [runs[r] EXCEPT !.pc = "embedding", !.chunks = pageChunks,
                                                  !.outstanding = Min(batchSize, Len(pageChunks))]]
                    /\ jobs' = Tail(jobs) \o EmbedJobs(r, pageChunks, 0)
                    /\ UNCHANGED isEmbeddingReady
               ELSE /\ isEmbeddingReady' = TRUE
                    /\ embeddingStatus' = "Ready for search!"
                    /\ runs' = [runs EXCEPT ![r].pc = "done"]
                    /\ jobs' = Tail(jobs)
                    /\ UNCHANGED chunkEmbeddings
    /\ UNCHANGED <<segmentation, grouping, channel, progressVars, page, dom, hostVars, isSearchVisible, isSearching, pageChunks, currentResults,
                   currentResultIndex, currentQuery, modelLoadStarted,
                   chunkExtractionComplete, embeddingGenerationProgress,
                   statusIndicator, providerVars, searches, calls>>
    /\ UNCHANGED historyVars

(***************************************************************************)
(* generateEmbedding up to its first await: the cache, then the backend    *)
(* when it is in use, else the local model through getEmbeddingModel.      *)
(***************************************************************************)
generateEmbedding ==
    /\ HeadIs("embed")
    /\ LET j == Head(jobs)
           cacheKey == getCacheKey(j.text)
       IN  IF Len(Trim(j.text)) = 0
           THEN /\ jobs' = Tail(jobs) \o <<SettledJob(j.t, j.n, j.id, j.text, FALSE, <<>>)>>
                /\ UNCHANGED <<calls, isModelLoading, modelLoadingPromise, progressVars>>
           ELSE IF cacheKey \in DOMAIN embeddingCache
           THEN /\ jobs' = Tail(jobs)
                           \o <<SettledJob(j.t, j.n, j.id, j.text, TRUE, embeddingCache[cacheKey])>>
                /\ UNCHANGED <<calls, isModelLoading, modelLoadingPromise, progressVars>>
           ELSE IF isUsingBackgroundModel
           THEN /\ calls' = calls \cup {Call(j.t, j.n, j.id, j.text, "remote")}
                /\ jobs' = Tail(jobs)
                /\ UNCHANGED <<isModelLoading, modelLoadingPromise, progressVars>>
           ELSE IF embeddingModel
           THEN /\ calls' = calls \cup {Call(j.t, j.n, j.id, j.text, "infer")}
                /\ jobs' = Tail(jobs)
                /\ UNCHANGED <<isModelLoading, modelLoadingPromise, progressVars>>
           ELSE /\ calls' = calls \cup {Call(j.t, j.n, j.id, j.text, "awaitModel")}
                /\ jobs' = Tail(jobs)
                /\ isModelLoading' = TRUE
                /\ modelLoadingPromise' = "pending"
                /\ IF isModelLoading /\ modelLoadingPromise = "pending"
                   THEN UNCHANGED progressVars
                   ELSE loadStarted
    /\ UNCHANGED <<segmentation, grouping, channel, page, dom, hostVars, controllerVars, embeddingModel, isBackgroundModelAvailable,
                   checkedBackgroundModel, isUsingBackgroundModel, embeddingCache,
                   runs, searches>>
    /\ UNCHANGED historyVars

(***************************************************************************)
(* What the callback of GENERATE_EMBEDDING receives.  A field of the        *)
(* response holds nothing, a plain array, a typed buffer (Float32Array),   *)
(* the object with numeric keys that a typed buffer becomes when the       *)
(* message is serialised as JSON, or an object with a field `data`.        *)
(***************************************************************************)
Value(kind, items, data) == [kind |-> kind, items |-> items, data |-> data]

\* a field that is not there; an object without a field `data` holds Nothing there
Nothing == Value("undefined", <<>>, "undefined")

\* lastError: chrome.runtime.lastError is set; defined: a response object came
Response(lastError, defined, error, embedding, data) ==
    [lastError |-> lastError, defined |-> defined, error |-> error,
     embedding |-> embedding, data |-> data]

\* the shapes in which a reply can carry the vector v: as offscreen.ts sends it,
\* as a plain array, a typed buffer, a serialised typed buffer, and as an object
\* holding an array or a typed buffer in `data`
NumericShapes(v) ==
    {Response(FALSE, TRUE, FALSE, Value("array", v, Nothing), Value("array", v, Nothing)),
     Response(FALSE, TRUE, FALSE, Value("array", v, Nothing), Nothing),
     Response(FALSE, TRUE, FALSE, Value("typed", v, Nothing), Nothing),
     Response(FALSE, TRUE, FALSE, Value("indexed", v, Nothing), Nothing),
     Response(FALSE, TRUE, FALSE, Value("object", <<>>, Value("array", v, Nothing)), Nothing),
     Response(FALSE, TRUE, FALSE, Value("object", <<>>, Value("typed", v, Nothing)), Nothing)}

\* replies without numeric data: {}, an empty array, an object without `data`
MalformedShapes ==
    {Response(FALSE, TRUE, FALSE, Nothing, Nothing),
     Response(FALSE, TRUE, FALSE, Value("array", <<>>, Nothing), Nothing),
     Response(FALSE, TRUE, FALSE, Value("object", <<>>, Nothing), Nothing)}

\* a channel error, no response object, an error reply, and the shapes above
EmbedReplies(v) ==
    {Response(TRUE, FALSE, FALSE, Nothing, Nothing),
     Response(FALSE, FALSE, FALSE, Nothing, Nothing),
     Response(FALSE, TRUE, TRUE, Nothing, Nothing)}
        \cup NumericShapes(v) \cup MalformedShapes

\* the replies to the requests for all texts
Replies == UNION {EmbedReplies(v) : v \in {<<1, 0>>, <<0, 1>>, <<1, 1>>}}

\* one reply for each way the request can end: a channel error, no response
\* object, an error reply, and the vector as offscreen.ts sends it; every
\* other shape ends the request as one of these does
OutcomeReplies ==
    {r \in Replies : ~r.defined \/ r.error
                        \/ (r.embedding.kind = "array" /\ r.data.kind = "array")}

\* a conversion that loses the last item
ArrayFromShortened(value) ==
    IF value.kind \in {"array", "typed"} /\ Len(value.items) > 1
    THEN SubSeq(value.items, 1, Len(value.items) - 1) ELSE <<>>

\* Array.from(x || []): an array or an iterable gives its items, anything else none
ArrayFrom(value) == IF value.kind \in {"array", "typed"} THEN value.items ELSE <<>>

\* lines 580-603: the vector taken from the response and whether one was found
ExtractEmbedding(response) ==
    LET embeddingArray ==
            IF response.embedding.kind = "array" THEN response.embedding.items
            ELSE IF response.data.kind = "array" THEN response.data.items
            ELSE IF response.embedding.kind # "undefined"
            THEN ArrayFrom(response.embedding.data)
            ELSE <<>>
    IN  [ok |-> Len(embeddingArray) > 0, vec |-> embeddingArray]

\* lines 560-610: how the promise of generateEmbeddingViaBackground ends.  Reading
\* response.error of a response that is not defined throws inside the callback,
\* where no handler settles the promise.
Settlement(response) ==
    IF response.lastError THEN [state |-> "rejected", vec |-> <<>>]
    ELSE IF ~response.defined THEN [state |-> "thrown", vec |-> <<>>]
    ELSE IF response.error THEN [state |-> "rejected", vec |-> <<>>]
    ELSE LET found == ExtractEmbedding(response)
         IN  IF found.ok THEN [state |-> "resolved", vec |-> found.vec]
             ELSE [state |-> "rejected", vec |-> <<>>]

\* generateEmbeddingViaBackground: the callback of GENERATE_EMBEDDING, lines 559-610
backgroundReply(c, reply) ==
    /\ Idle
    /\ c \in calls /\ c.stage = "remote"
    /\ reply \in EmbedReplies(ModelOutput(c.text))
    /\ LET end == Settlement(reply) IN
       /\ IF end.state = "thrown"
          THEN /\ calls' = (calls \ {c}) \cup {[c EXCEPT !.stage = "thrown"]}
               /\ UNCHANGED jobs
          ELSE /\ calls' = calls \ {c}
               /\ jobs' = <<SettledJob(c.t, c.n, c.id, c.text, end.state = "resolved", end.vec)>>
       /\ IF end.state = "rejected"
          THEN /\ isUsingBackgroundModel' = FALSE
               /\ isBackgroundModelAvailable' = FALSE
          ELSE UNCHANGED <<isUsingBackgroundModel, isBackgroundModelAvailable>>
       /\ remoteFailed' = (remoteFailed \/ end.state = "rejected")
       /\ embedRejected' = (embedRejected \/ end.state = "rejected")
       /\ UNCHANGED localFailed
       /\ served' = IF end.state = "resolved" THEN served \cup {c.text} ELSE served
    /\ UNCHANGED <<segmentation, grouping, channel, progressVars, page, dom, hostVars, controllerVars, embeddingModel, isModelLoading,
                   modelLoadingPromise, checkedBackgroundModel, embeddingCache,
                   runs, searches>>
    /\ UNCHANGED epoch

\* generateEmbedding: the local model returns, lines 647-660
localInferenceDone(c, ok) ==
    /\ Idle
    /\ c \in calls /\ c.stage = "infer"
    /\ calls' = calls \ {c}
    /\ jobs' = <<SettledJob(c.t, c.n, c.id, c.text, ok, ModelOutput(c.text))>>
    /\ embeddingCache' = IF ok THEN (getCacheKey(c.text) :> ModelOutput(c.text)) @@ embeddingCache
                         ELSE embeddingCache
    /\ UNCHANGED <<segmentation, grouping, channel, progressVars, page, dom, hostVars, controllerVars, embeddingModel, isModelLoading,
                   modelLoadingPromise, isBackgroundModelAvailable,
                   checkedBackgroundModel, isUsingBackgroundModel, runs, searches>>
    /\ served' = IF ok THEN served \cup {c.text} ELSE served
    /\ localFailed' = (localFailed \/ ~ok)
    /\ UNCHANGED <<epoch, remoteFailed, embedRejected>>

(***************************************************************************)
(* generateChunkEmbeddings and performSemanticSearch resume when a call of *)
(* generateEmbedding returns.                                              *)
(***************************************************************************)
Progress(done, total) == Min(100, (200 * done + total) \div (2 * total))

\* lines 265-279: the chunk's vector is stored; after the last call of the batch
\* the progress is updated and the timer is started
chunkEmbedded ==
    /\ HeadIs("settled") /\ Head(jobs).t = "run"
    /\ LET j == Head(jobs)
           r == j.n
           run == runs[r]
       IN  /\ chunkEmbeddings' = IF j.ok THEN (j.id :> j.vec) @@ chunkEmbeddings
                                 ELSE chunkEmbeddings
           /\ IF run.outstanding = 1
              THEN /\ embeddingGenerationProgress' =
                         Progress(Min(run.i + batchSize, Len(run.chunks)), Len(run.chunks))
                   /\ embeddingStatus' = "Generating page embeddings..."
                   /\ runs' = [runs EXCEPT ![r].outstanding = 0, ![r].pc = "yield"]
              ELSE /\ runs' = [runs EXCEPT ![r].outstanding = run.outstanding - 1]
                   /\ UNCHANGED <<embeddingGenerationProgress, embeddingStatus>>
    /\ jobs' = Tail(jobs)
    /\ UNCHANGED <<segmentation, grouping, channel, progressVars, page, dom, hostVars, isSearchVisible, isSearching, isEmbeddingReady, pageChunks,
                   currentResults, currentResultIndex, currentQuery, modelLoadStarted,
                   modelLoadComplete, chunkExtractionComplete, statusIndicator,
                   providerVars, searches, calls, historyVars>>

\* line 282: setTimeout(resolve, 0) fires
timerFires(r) ==
    /\ Idle
    /\ r \in 1..Len(runs) /\ runs[r].pc = "yield"
    /\ runs' = [runs EXCEPT ![r].pc = "resume"]
    /\ jobs' = <<Job("resume", "run", r, NoId, <<>>, TRUE)>>
    /\ UNCHANGED <<segmentation, grouping, channel, progressVars, page, dom, hostVars, controllerVars, providerVars, searches, calls, historyVars>>

\* the next batch, or the end of generateChunkEmbeddings and lines 228-230
nextBatch ==
    /\ HeadIs("resume")
    /\ LET r == Head(jobs).n
           i == runs[r].i + batchSize
           chunks == runs[r].chunks
       IN  IF i < Len(chunks)
           THEN /\ runs' = [runs EXCEPT ![r].pc = "embedding", ![r].i = i,
                                        ![r].outstanding = Min(batchSize, Len(chunks) - i)]
                /\ jobs' = Tail(jobs) \o EmbedJobs(r, chunks, i)
                /\ UNCHANGED <<isEmbeddingReady, embeddingStatus>>
           ELSE /\ isEmbeddingReady' = TRUE
                /\ embeddingStatus' = "Ready for search!"
                /\ runs' = [runs EXCEPT ![r].pc = "done"]
                /\ jobs' = Tail(jobs)
    /\ UNCHANGED <<segmentation, grouping, channel, progressVars, page, dom, hostVars, isSearchVisible, isSearching, pageChunks, chunkEmbeddings,
                   currentResults, currentResultIndex, currentQuery, modelLoadStarted,
                   modelLoadComplete, chunkExtractionComplete,
                   embeddingGenerationProgress, statusIndicator, providerVars,
                   searches, calls, historyVars>>

(***************************************************************************)
(* The Enter key and the arrow, lines 631-692, with performSearch up to    *)
(* the call of generateEmbedding inside performSemanticSearch.             *)
(***************************************************************************)
performSearch(q, limit) ==
    /\ Idle
    /\ isSearchVisible
    /\ IF Len(Trim(q)) < MinQueryLength
       THEN /\ statusIndicator' = "Enter at least 3 characters to search"
            /\ UNCHANGED <<dom, hostVars, isSearching, currentResults, currentResultIndex,
                           currentQuery, searches, jobs>>
       ELSE IF ~isEmbeddingReady
       THEN /\ statusIndicator' = "Please wait"
            /\ UNCHANGED <<dom, hostVars, isSearching, currentResults, currentResultIndex,
                           currentQuery, searches, jobs>>
       ELSE /\ Len(searches) < limit
            \* clearResults(false); removeHighlights()
            /\ dom' = removeHighlights(removeHighlights(dom))
            /\ attributesRemoved
            /\ currentResults' = <<>>
            /\ currentResultIndex' = -1
            /\ isSearching' = TRUE
            /\ statusIndicator' = "Searching..."
            /\ currentQuery' = Trim(q)
            /\ searches' = Append(searches, [query |-> Trim(q), pc |-> "embedding",
                                             epoch |-> epoch])
            /\ jobs' = <<Job("embed", "search", Len(searches) + 1, NoId, Trim(q), TRUE)>>
    /\ UNCHANGED <<segmentation, grouping, channel, progressVars, page, isSearchVisible, isEmbeddingReady, pageChunks, chunkEmbeddings,
                   modelLoadStarted, modelLoadComplete, chunkExtractionComplete,
                   embeddingGenerationProgress, embeddingStatus, providerVars,
                   runs, calls, historyVars>>

\* the Enter key or the arrow while the search UI is opened and closed
submitQuery(q) == performSearch(q, MaxSearches)

\* a cursor on the first entry whether there is one or not
FirstIndexAlways(results) == 0
\* line 752: the cursor after a search
FirstIndex(results) == IF Len(results) > 0 THEN 0 ELSE -1

(***************************************************************************)
(* performSemanticSearch after the query embedding, lines 1500-1579, and   *)
(* the then and catch of performSearch, lines 749-770.                     *)
(***************************************************************************)
searchSettled ==
    /\ HeadIs("settled") /\ Head(jobs).t = "search"
    /\ LET j == Head(jobs)
           cleared == removeHighlights(dom)
           results == SearchResults(page, cleared, j.vec, pageChunks, chunkEmbeddings)
           highlighted == applyHighlights(cleared, results, currentResultIndex)
       IN  /\ currentResults' = IF j.ok THEN results ELSE currentResults
           /\ currentResultIndex' = IF ~j.ok THEN currentResultIndex
                                    ELSE FirstIndex(results)
           \* setActiveResult(0)
           /\ dom' = IF ~j.ok THEN dom
                     ELSE IF Len(results) > 0 THEN applyHighlights(highlighted, results, 0)
                     ELSE highlighted
           /\ hostAttempted' = IF ~j.ok THEN hostAttempted ELSE AttemptedBy(results)
           /\ inlineBackground' =
                  IF ~j.ok THEN inlineBackground
                  ELSE IF Len(results) > 0
                  THEN inlineBackground \ (hostAttempted \cup AttemptedBy(results))
                  ELSE inlineBackground \ hostAttempted
           /\ highlightStyles' = (j.ok \/ highlightStyles)
           /\ spanStyles' =
                  IF ~j.ok THEN spanStyles
                  ELSE spanStyles + StylesAdded(cleared, results, currentResultIndex)
                       + (IF Len(results) > 0 THEN StylesAdded(highlighted, results, 0) ELSE 0)
           /\ statusIndicator' = IF ~j.ok THEN "Error: Failed to perform search"
                                 ELSE IF Len(results) > 0 THEN "results found"
                                 ELSE "No results found"
           /\ searches' = [searches EXCEPT ![j.n].pc = IF j.ok THEN "done" ELSE "failed"]
    /\ isSearching' = FALSE
    /\ jobs' = Tail(jobs)
    /\ UNCHANGED <<segmentation, grouping, channel, progressVars, page, isSearchVisible, isEmbeddingReady, pageChunks, chunkEmbeddings,
                   currentQuery, modelLoadStarted, modelLoadComplete,
                   chunkExtractionComplete, embeddingGenerationProgress,
                   embeddingStatus, providerVars, runs, calls, historyVars>>

\* setActiveResult, lines 1016-1038
setActiveResult(index) ==
    IF Len(currentResults) = 0 \/ index < 0 \/ index >= Len(currentResults)
    THEN UNCHANGED <<dom, hostVars, currentResultIndex>>
    ELSE /\ currentResultIndex' = index
         /\ dom' = applyHighlights(dom, currentResults, index)
         /\ hostAttempted' = AttemptedBy(currentResults)
         /\ inlineBackground' = inlineBackground \ hostAttempted
         /\ highlightStyles' = TRUE
         /\ spanStyles' = spanStyles + StylesAdded(dom, currentResults, index)

Directions == {"next", "previous"}

\* the buttons and the arrow keys, lines 106-126 and 917-934
navigateResults(direction) ==
    /\ Idle
    /\ isSearchVisible
    /\ Len(currentResults) > 0
    /\ MarkerCount(dom) <= MaxSpans
    /\ spanStyles <= MaxStyles
    /\ LET newIndex == IF direction = "next"
                       THEN Min(Len(currentResults) - 1, currentResultIndex + 1)
                       ELSE IF currentResultIndex - 1 > 0 THEN currentResultIndex - 1 ELSE 0
       IN  /\ newIndex # currentResultIndex
           /\ setActiveResult(newIndex)
    /\ UNCHANGED <<segmentation, grouping, channel, progressVars, page, isSearchVisible, isSearching, isEmbeddingReady, pageChunks,
                   chunkEmbeddings, currentResults, currentQuery, modelLoadStarted,
                   modelLoadComplete, chunkExtractionComplete,
                   embeddingGenerationProgress, statusIndicator, embeddingStatus,
                   providerVars, taskVars, historyVars>>

\* a click on an entry of the result list, lines 853-864
resultClicked(index) ==
    /\ Idle
    /\ isSearchVisible
    /\ index \in 0..(Len(currentResults) - 1)
    /\ MarkerCount(dom) <= MaxSpans
    /\ spanStyles <= MaxStyles
    /\ setActiveResult(index)
    /\ UNCHANGED <<segmentation, grouping, channel, progressVars, page, isSearchVisible, isSearching, isEmbeddingReady, pageChunks,
                   chunkEmbeddings, currentResults, currentQuery, modelLoadStarted,
                   modelLoadComplete, chunkExtractionComplete,
                   embeddingGenerationProgress, statusIndicator, embeddingStatus,
                   providerVars, taskVars, historyVars>>

\* the input event with an empty field, lines 602-628: clearResults()
inputCleared ==
    /\ Idle
    /\ isSearchVisible
    /\ currentResults # <<>> \/ MarkerCount(dom) > 0 \/ statusIndicator # ""
    /\ dom' = removeHighlights(dom)
    /\ attributesRemoved
    /\ currentResults' = <<>>
    /\ currentResultIndex' = -1
    /\ statusIndicator' = ""
    /\ UNCHANGED <<segmentation, grouping, channel, progressVars, page, isSearchVisible, isSearching, isEmbeddingReady, pageChunks,
                   chunkEmbeddings, currentQuery, modelLoadStarted, modelLoadComplete,
                   chunkExtractionComplete, embeddingGenerationProgress,
                   embeddingStatus, providerVars, taskVars, historyVars>>

\* the progress_callback of pipeline(), lines 453-455, calls updateModelLoadingProgress
progressSignal(progress) ==
    /\ Idle
    /\ modelLoadingPromise = "pending"
    /\ signalCount < MaxSignals
    /\ signalCount' = signalCount + 1
    /\ currentModelLoadingProgress' =
          updateModelLoadingProgress(currentModelLoadingProgress, progress)
    /\ reports' = Reported(currentModelLoadingProgress')
    /\ UNCHANGED <<modelLoadingProgressCallback, backendReady>>
    /\ UNCHANGED <<segmentation, grouping, channel, page, dom, hostVars, controllerVars, providerVars, taskVars, historyVars>>

Bool == {TRUE, FALSE}
StatusReplies == {"ready", "notReady", "lastError"}

\* every step but the opening of the search UI
Running ==
    \/ hideSemanticSearch
    \/ getEmbeddingModel
    \/ \E r \in 1..Len(runs) : debugReply(r)
    \/ \E r \in 1..Len(runs), semanticModelReady \in Bool : storageReply(r, semanticModelReady)
    \/ \E r \in 1..Len(runs), reply \in StatusReplies : statusReply(r, reply)
    \/ getLocalModel
    \/ \E ok \in Bool : localLoadDone(ok)
    \/ modelObtained
    \/ generateEmbedding
    \/ \E c \in calls, reply \in OutcomeReplies : backgroundReply(c, reply)
    \/ \E c \in calls, ok \in Bool : localInferenceDone(c, ok)
    \/ chunkEmbedded
    \/ \E r \in 1..Len(runs) : timerFires(r)
    \/ nextBatch
    \/ \E q \in Queries : submitQuery(q)
    \/ searchSettled
    \/ \E direction \in Directions : navigateResults(direction)
    \/ \E index \in 0..(MaxResults - 1) : resultClicked(index)
    \/ inputCleared

Next == showSemanticSearch \/ Running

Spec == Init /\ [][Next]_vars

(***************************************************************************)
(* Scheduling.  The browser runs every continuation, every timer and every *)
(* local computation that is due; chrome.storage answers every read.  The  *)
(* user need not act and the backend need not answer.                      *)
(***************************************************************************)
\* The step that searchSettled takes from a state, told by what it does to the
\* queue and to the flag alone: with a settled query embedding at the head of
\* the queue no other step is possible, so it is enabled when searchSettled
\* is and occurs when searchSettled does.
searchReturns ==
    /\ HeadIs("settled") /\ Head(jobs).t = "search"
    /\ jobs' = Tail(jobs)
    /\ isSearching' = FALSE

Continuation ==
    \/ getEmbeddingModel \/ getLocalModel \/ modelObtained \/ generateEmbedding
    \/ chunkEmbedded \/ nextBatch
Timer == \E r \in 1..Len(runs) : timerFires(r)
StorageRead == \E r \in 1..Len(runs), semanticModelReady \in Bool :
                  storageReply(r, semanticModelReady)
LocalLoad == \E ok \in Bool : localLoadDone(ok)
LocalInference == \E c \in calls, ok \in Bool : localInferenceDone(c, ok)

\* one opening of the search UI: the runs of concurrent sessions add nothing
\* to what a session that waits for an answer shows
firstShow == runs = <<>> /\ showSemanticSearch
OneSession == firstShow \/ Running

FairSpec ==
    /\ Init /\ [][OneSession]_vars
    /\ WF_vars(Continuation) /\ WF_<<jobs, isSearching>>(searchReturns)
    /\ WF_vars(Timer) /\ WF_vars(StorageRead)
    /\ WF_vars(LocalLoad) /\ WF_vars(LocalInference)

(***************************************************************************)
(* The loading of the model with the progress signals of pipeline(): the   *)
(* search UI is opened and closed and the page is processed, but no query  *)
(* is submitted.                                                           *)
(***************************************************************************)
LoadNext ==
    \/ showSemanticSearch
    \/ hideSemanticSearch
    \/ getEmbeddingModel
    \/ \E r \in 1..Len(runs) : debugReply(r)
    \/ \E r \in 1..Len(runs), semanticModelReady \in Bool : storageReply(r, semanticModelReady)
    \/ \E r \in 1..Len(runs), reply \in StatusReplies : statusReply(r, reply)
    \/ getLocalModel
    \/ \E progress \in ProgressSignals : progressSignal(progress)
    \/ \E ok \in Bool : localLoadDone(ok)
    \/ modelObtained
    \/ generateEmbedding
    \/ \E c \in calls, reply \in Replies : backgroundReply(c, reply)
    \/ \E c \in calls, ok \in Bool : localInferenceDone(c, ok)
    \/ chunkEmbedded
    \/ \E r \in 1..Len(runs) : timerFires(r)
    \/ nextBatch

LoadSpec == Init /\ [][LoadNext]_vars

(***************************************************************************)
(* The pass over the chunks of a long page, which takes two batches, when   *)
(* the local model loads and every request to embed a chunk is answered    *)
(* with a vector.                                                          *)
(***************************************************************************)
\* the replies that carry a vector as offscreen.ts sends it
Vectors == {r \in OutcomeReplies : r.defined /\ ~r.error}

PassNext ==
    \/ showSemanticSearch
    \/ hideSemanticSearch
    \/ getEmbeddingModel
    \/ \E r \in 1..Len(runs) : debugReply(r)
    \/ \E r \in 1..Len(runs), semanticModelReady \in Bool : storageReply(r, semanticModelReady)
    \/ \E r \in 1..Len(runs), reply \in StatusReplies : statusReply(r, reply)
    \/ getLocalModel
    \/ localLoadDone(TRUE)
    \/ modelObtained
    \/ generateEmbedding
    \/ \E c \in calls, reply \in Vectors : backgroundReply(c, reply)
    \/ \E c \in calls : localInferenceDone(c, TRUE)
    \/ chunkEmbedded
    \/ \E r \in 1..Len(runs) : timerFires(r)
    \/ nextBatch

PassInit == page = LONG /\ Closed /\ segmentation = NotSegmenting /\ Aside

PassSpec == PassInit /\ [][PassNext]_vars

(***************************************************************************)
(* A session on a page without qualifying text: startProcessingContent      *)
(* skips generateChunkEmbeddings (line 225), and a query is embedded and    *)
(* compared with no chunk.                                                  *)
(***************************************************************************)
EmptyNext ==
    \/ showSemanticSearch
    \/ hideSemanticSearch
    \/ getEmbeddingModel
    \/ \E r \in 1..Len(runs) : debugReply(r)
    \/ \E r \in 1..Len(runs), semanticModelReady \in Bool : storageReply(r, semanticModelReady)
    \/ \E r \in 1..Len(runs), reply \in StatusReplies : statusReply(r, reply)
    \/ getLocalModel
    \/ \E ok \in Bool : localLoadDone(ok)
    \/ modelObtained
    \/ generateEmbedding
    \/ \E c \in calls, reply \in OutcomeReplies : backgroundReply(c, reply)
    \/ \E c \in calls, ok \in Bool : localInferenceDone(c, ok)
    \/ \E q \in Queries : submitQuery(q)
    \/ searchSettled
    \/ inputCleared

EmptyInit == page = EMPTY /\ Closed /\ segmentation = NotSegmenting /\ Aside

EmptySpec == EmptyInit /\ [][EmptyNext]_vars

(***************************************************************************)
(* The segmenter.  processChunks is followed for one group of elements     *)
(* that share a parent: `source` holds the trimmed text of each element.   *)
(* Positions in a text count from 0, as in JavaScript.                     *)
(***************************************************************************)
Options(min, max, overlap) ==
    [minChunkLength |-> min, maxChunkLength |-> max, overlapPercentage |-> overlap]

DEFAULT_OPTIONS == Options(50, 100, 0)

\* String.prototype.substring(start, end)
Substring(text, start, end) == SubSeq(text, start + 1, end)

\* String.prototype.lastIndexOf(' ')
LastIndexOfSpace(text) ==
    LET found == {i \in 1..Len(text) : text[i] = " "}
    IN  IF found = {} THEN -1 ELSE (CHOOSE i \in found : \A j \in found : j <= i) - 1

\* the texts of a group, joined by one space
RECURSIVE Concatenated(_)
Concatenated(source) ==
    IF Len(source) = 1 THEN source[1]
    ELSE Concatenated(SubSeq(source, 1, Len(source) - 1)) \o <<" ">> \o source[Len(source)]

\* splitTextIntoChunks: where the chunk that starts at startPos ends
EndPos(text, options, startPos) ==
    LET endPos == Min(startPos + options.maxChunkLength, Len(text))
        breakZone == (options.maxChunkLength * 2) \div 10
        potentialBreakPos == LastIndexOfSpace(Substring(text, endPos - breakZone, endPos))
    IN  IF endPos < Len(text) /\ potentialBreakPos >= 0
        THEN endPos - breakZone + potentialBreakPos
        ELSE endPos

\* splitTextIntoChunks: where the chunk after the one from startPos to endPos starts
NextStart(options, startPos, endPos) ==
    endPos - ((endPos - startPos) * options.overlapPercentage) \div 100

\* a segmenter that keeps every text
AnyLength(text, options) == TRUE

\* a text is long enough to become a chunk
LongEnough(text, options) == Len(text) >= options.minChunkLength

\* generateChunkId: Date.now() and the digits taken from Math.random()
generateChunkId(now, random) == <<now, random>>

\* a chunk whose position is taken from its id
ChunkPlacedById(id, text, position) == [id |-> id, text |-> text, position |-> id[2]]

Chunk(id, text, position) == [id |-> id, text |-> text, position |-> position]

\* the milliseconds that Date.now() can show while a page is segmented, and the
\* values of Math.random()
MaxNow == 1
MaxRandom == 2

\* the loop of splitTextIntoChunks is followed for at most this many chunks
MaxSegChunks == 4

\* the texts of up to n characters of which an element can hold one, trimmed
Alphabet == {"a", " "}
ElementTexts(n) ==
    {t \in UNION {[1..k -> Alphabet] : k \in 1..n} : t[1] # " " /\ t[Len(t)] # " "}

MaxTextLen == 7
MaxPartLen == 2

\* a single element, or two elements with the same parent
Sources ==
    {<<t>> : t \in ElementTexts(MaxTextLen)}
        \cup {<<t, u>> : t \in ElementTexts(MaxPartLen), u \in ElementTexts(MaxPartLen)}

\* the configurations explored, the default among them
Configurations ==
    {DEFAULT_OPTIONS}
        \cup {Options(min, max, overlap) : min \in {2, 4}, max \in {3, 5}, overlap \in {0, 50, 100}}

\* a call of processChunks on one group, before its first statement
Segmenting(source, options, call, first, now) ==
    [pc |-> "start", source |-> source, options |-> options, text |-> <<>>,
     startPos |-> 0, position |-> 0, chunks |-> <<>>,
     call |-> call, first |-> first, now |-> now]

\* processChunks up to the loop of splitTextIntoChunks: a text of at most
\* maxChunkLength gives one chunk or none, a longer one is split
processChunks(tick, random) ==
    /\ segmentation.pc = "start"
    /\ LET sg == segmentation
           text == Concatenated(sg.source)
           now == Min(sg.now + tick, MaxNow)
       IN  segmentation' =
              IF Len(text) > sg.options.maxChunkLength
              THEN [sg EXCEPT !.pc = "splitting", !.text = text]
              ELSE IF LongEnough(text, sg.options)
              THEN [sg EXCEPT !.pc = "done", !.text = text, !.now = now,
                              !.chunks = <<Chunk(generateChunkId(now, random), text, 0)>>]
              ELSE [sg EXCEPT !.pc = "done", !.text = text]
    /\ UNCHANGED <<sessionVars, grouping, channel>>

\* one round of the loop of splitTextIntoChunks
splitTextIntoChunks(tick, random) ==
    /\ segmentation.pc = "splitting"
    /\ Len(segmentation.chunks) < MaxSegChunks
    /\ LET sg == segmentation
           endPos == EndPos(sg.text, sg.options, sg.startPos)
           chunkText == Trim(Substring(sg.text, sg.startPos, endPos))
           now == Min(sg.now + tick, MaxNow)
           startPos == NextStart(sg.options, sg.startPos, endPos)
           kept == IF LongEnough(chunkText, sg.options)
                   THEN [sg EXCEPT !.now = now, !.position = sg.position + 1,
                                   !.chunks = Append(sg.chunks,
                                       Chunk(generateChunkId(now, random), chunkText, sg.position))]
                   ELSE sg
       IN  segmentation' = [kept EXCEPT !.startPos = startPos,
                                        !.pc = IF startPos < Len(sg.text) THEN "splitting"
                                               ELSE "done"]
    /\ UNCHANGED <<sessionVars, grouping, channel>>

\* extractTextChunks is called once more while the page has not changed
extractAgain ==
    /\ segmentation.pc = "done"
    /\ segmentation.call = 1
    /\ segmentation' = Segmenting(segmentation.source, segmentation.options, 2,
                                  segmentation.chunks, segmentation.now)
    /\ UNCHANGED <<sessionVars, grouping, channel>>

ChunkInit ==
    /\ page = "distinct" /\ Closed
    /\ \E source \in Sources, options \in Configurations :
          segmentation = Segmenting(source, options, 1, <<>>, 0)
    /\ Aside

ChunkNext ==
    \/ \E tick \in 0..1, random \in 1..MaxRandom : processChunks(tick, random)
    \/ \E tick \in 0..1, random \in 1..MaxRandom : splitTextIntoChunks(tick, random)
    \/ extractAgain

ChunkSpec == ChunkInit /\ [][ChunkNext]_vars

(***************************************************************************)
(* The grouping of raw chunks by processChunks, lines 167-216.  A document  *)
(* has content elements in document order, each under one of the parents,  *)
(* which are children of body.  A parent has a tag and may have an id of   *)
(* its own; getDomPath names an element by the tags and ids on the way     *)
(* from the root.                                                          *)
(***************************************************************************)
MaxParents == 2
MaxElements == 3

Tags == {"ul", "div"}

\* the parents of a document: a tag each, and an id that no other element has
ParentLists == [1..MaxParents -> [tag : Tags, id : Bool]]
\* the parent of every content element
ElementLists == UNION {[1..n -> 1..MaxParents] : n \in 1..MaxElements}

\* getDomPath, lines 227-267: tag and id of every element from the root down
Identifier(parents, p) ==
    <<parents[p].tag>> \o (IF parents[p].id THEN <<"#", p>> ELSE <<>>)
getDomPath(parents, p) == <<"html", "body", Identifier(parents, p)>>

\* processChunks before its first statement
Grouping(parents, elements) ==
    [pc |-> "grouping", parents |-> parents, elements |-> elements, i |-> 1,
     keys |-> <<>>, groupedChunks |-> <<>>, units |-> <<>>]

\* lines 170-180: the raw chunk of element i is put in the group of its parent's path
groupChunk ==
    /\ grouping.pc = "grouping"
    /\ LET g == grouping
           parentPath == getDomPath(g.parents, g.elements[g.i])
           known == parentPath \in DOMAIN g.groupedChunks
           group == IF known THEN g.groupedChunks[parentPath] ELSE <<>>
       IN  grouping' =
              [g EXCEPT !.keys = IF known THEN g.keys ELSE Append(g.keys, parentPath),
                        !.groupedChunks = (parentPath :> Append(group, g.i)) @@ g.groupedChunks,
                        !.i = g.i + 1,
                        !.pc = IF g.i = Len(g.elements) THEN "processing" ELSE "grouping"]
    /\ UNCHANGED <<sessionVars, segmentation, channel>>

\* lines 183-216: the texts of the next group are joined into one unit
processGroup ==
    /\ grouping.pc = "processing"
    /\ LET g == grouping
           group == g.groupedChunks[g.keys[Len(g.units) + 1]]
       IN  grouping' = [g EXCEPT !.units = Append(g.units, group),
                                 !.pc = IF Len(g.units) + 1 = Len(g.keys) THEN "done"
                                        ELSE "processing"]
    /\ UNCHANGED <<sessionVars, segmentation, channel>>

GroupInit ==
    /\ page = "distinct" /\ Closed
    /\ segmentation = NotSegmenting /\ channel = NoChannel
    /\ \E parents \in ParentLists, elements \in ElementLists :
          grouping = Grouping(parents, elements)

GroupNext == groupChunk \/ processGroup

GroupSpec == GroupInit /\ [][GroupNext]_vars

\* ---------------------------------------------------------------------------------------------
\* The message channel of the extension: the page (embedding-service.ts), the background relay
\* (background.ts) and the model host (offscreen.ts). chrome.runtime.sendMessage of the page
\* reaches the listeners of every other extension context; the first response given is the one
\* the sender's callback receives, and the callback gets lastError when no listener answers.
\* ---------------------------------------------------------------------------------------------
MaxRequests == 2
MaxStarts == 2

\* a GENERATE_EMBEDDING message: its copy at the model host, the relay's handling of it, the
\* copy the relay sends on, and what came of it
Request(delivered) ==
    [direct |-> IF delivered THEN "delivered" ELSE "none", relay |-> "delivered",
     relayed |-> "none", inferences |-> 0, responses |-> 0, response |-> "none", replies |-> 0]

\* the extension after the browser has started it; semanticModelReady is chrome.storage.local
Channel(documentId, semanticModelReady, starts) ==
    [pc |-> "open", documentId |-> documentId, starts |-> starts,
     semanticModelReady |-> semanticModelReady,
     document |-> FALSE, isModelReady |-> FALSE, isModelLoading |-> FALSE,
     modelLoadError |-> FALSE,
     check |-> "none", isBackgroundModelAvailable |-> FALSE, requests |-> <<>>]

Open == channel.pc = "open"

\* sendResponse: the port takes the first response only
Responded(req, response) ==
    [req EXCEPT !.responses = @ + 1,
                !.response = IF @ = "none" THEN response ELSE @]

\* background.ts, lines 785-825 and 865, and offscreen.ts, lines 98-107 and 310-313: the document
\* is created and starts loading the model
createOffscreenDocument ==
    /\ Open /\ ~channel.document
    /\ channel' = [channel EXCEPT !.document = TRUE, !.isModelLoading = TRUE,
                                  !.modelLoadError = FALSE]
    /\ UNCHANGED <<sessionVars, segmentation, grouping>>

\* offscreen.ts, lines 141-168: initializeModel succeeds
modelLoaded ==
    /\ Open /\ channel.document /\ channel.isModelLoading
    /\ channel' = [channel EXCEPT !.isModelReady = TRUE, !.isModelLoading = FALSE,
                                  !.semanticModelReady = TRUE]
    /\ UNCHANGED <<sessionVars, segmentation, grouping>>

\* offscreen.ts, lines 174-194: initializeModel fails
modelLoadFailed ==
    /\ Open /\ channel.document /\ channel.isModelLoading
    /\ channel' = [channel EXCEPT !.modelLoadError = TRUE, !.isModelLoading = FALSE,
                                  !.semanticModelReady = FALSE]
    /\ UNCHANGED <<sessionVars, segmentation, grouping>>

\* the browser is closed and started again: every context of the extension is new, and
\* chrome.storage.local is what it was
browserRestarted ==
    /\ Open /\ channel.starts < MaxStarts
    /\ channel' = Channel(channel.documentId, channel.semanticModelReady, channel.starts + 1)
    /\ UNCHANGED <<sessionVars, segmentation, grouping>>

\* embedding-service.ts, lines 263-283: checkBackgroundModel reads the stored flag
storageCheck ==
    /\ Open /\ channel.check = "none"
    /\ channel' = IF channel.semanticModelReady
                  THEN [channel EXCEPT !.check = "checked",
                                       !.isBackgroundModelAvailable = TRUE]
                  ELSE [channel EXCEPT !.check = "status"]
    /\ UNCHANGED <<sessionVars, segmentation, grouping>>

\* embedding-service.ts, lines 286-330, and offscreen.ts, lines 271-282: the answer to
\* GET_MODEL_STATUS is the host's isModelReady, or lastError when there is no host
getModelStatus ==
    /\ Open /\ channel.check = "status"
    /\ channel' = [channel EXCEPT !.check = "checked",
                                  !.isBackgroundModelAvailable =
                                      channel.document /\ channel.isModelReady]
    /\ UNCHANGED <<sessionVars, segmentation, grouping>>

\* embedding-service.ts, lines 549-558: generateEmbeddingViaBackground sends the request
sendMessage ==
    /\ Open /\ channel.isBackgroundModelAvailable
    /\ Len(channel.requests) < MaxRequests
    /\ channel' = [channel EXCEPT !.requests = Append(@, Request(channel.document))]
    /\ UNCHANGED <<sessionVars, segmentation, grouping>>

\* offscreen.ts, lines 217-233: generateEmbedding uses the model, waits for the load under way,
\* or starts a load
HostCopy(c) == IF c.isModelReady THEN "inferring" ELSE "waiting"

HostBusy(c) == [c EXCEPT !.isModelLoading = ~c.isModelReady,
                         !.modelLoadError = IF c.isModelReady THEN @ ELSE FALSE]

\* offscreen.ts, lines 264-269 and 284-291: the host takes the copy the page sent, which has
\* direct and target set
offscreenListener(i) ==
    /\ Open /\ i \in 1..Len(channel.requests)
    /\ channel.requests[i].direct = "delivered"
    /\ channel' = [HostBusy(channel) EXCEPT !.requests[i].direct = HostCopy(channel)]
    /\ UNCHANGED <<sessionVars, segmentation, grouping>>

\* offscreen.ts, lines 264-269 and 284-291: the host takes the copy the relay sent on
offscreenListenerRelayed(i) ==
    /\ Open /\ i \in 1..Len(channel.requests)
    /\ channel.requests[i].relayed = "delivered"
    /\ channel' = [HostBusy(channel) EXCEPT !.requests[i].relayed = HostCopy(channel)]
    /\ UNCHANGED <<sessionVars, segmentation, grouping>>

\* offscreen.ts, lines 222-233: the load a copy waited for has ended
Waited(c, state) ==
    IF state # "waiting" \/ c.isModelLoading THEN state
    ELSE IF c.isModelReady THEN "inferring" ELSE "failed"

\* offscreen.ts, lines 236-246 and 293-308: the inference and the response to the page
offscreenInference(i) ==
    /\ Open /\ i \in 1..Len(channel.requests)
    /\ LET req == channel.requests[i]
           state == Waited(channel, req.direct)
       IN  /\ state \in {"inferring", "failed"}
           /\ channel' =
                 [channel EXCEPT !.requests[i] =
                     [Responded(req, IF state = "inferring" THEN "embedding" ELSE "error")
                         EXCEPT !.direct = "done",
                                !.inferences = IF state = "inferring" THEN @ + 1 ELSE @]]
    /\ UNCHANGED <<sessionVars, segmentation, grouping>>

\* offscreen.ts, lines 236-246 and 293-308: the inference and the response to the relay
offscreenInferenceRelayed(i) ==
    /\ Open /\ i \in 1..Len(channel.requests)
    /\ LET req == channel.requests[i]
           state == Waited(channel, req.relayed)
       IN  /\ state \in {"inferring", "failed"}
           /\ channel' =
                 [channel EXCEPT !.requests[i] =
                     [req EXCEPT !.relayed = IF state = "inferring" THEN "embedding"
                                             ELSE "error",
                                 !.inferences = IF state = "inferring" THEN @ + 1 ELSE @]]
    /\ UNCHANGED <<sessionVars, segmentation, grouping>>

\* background.ts, lines 878-901 and 904-920: the relay leaves a message alone whose sender has a
\* documentId, and asks for the offscreen document otherwise
backgroundListener(i) ==
    /\ Open /\ i \in 1..Len(channel.requests)
    /\ channel.requests[i].relay = "delivered"
    /\ channel' = [channel EXCEPT !.requests[i].relay =
                      IF channel.documentId THEN "declined" ELSE "checking"]
    /\ UNCHANGED <<sessionVars, segmentation, grouping>>

\* background.ts, lines 920-926 and 952-955: hasOffscreenDocument has answered; the message is
\* sent on, after the document has been created where there was none
backgroundChecked(i) ==
    /\ Open /\ i \in 1..Len(channel.requests)
    /\ channel.requests[i].relay = "checking"
    /\ channel' =
          IF channel.document
          THEN [channel EXCEPT !.requests[i].relay = "sent",
                               !.requests[i].relayed = "delivered"]
          ELSE [channel EXCEPT !.document = TRUE, !.isModelLoading = TRUE,
                               !.modelLoadError = FALSE,
                               !.requests[i].relay = "delay"]
    /\ UNCHANGED <<sessionVars, segmentation, grouping>>

\* background.ts, lines 928-931: the 500 ms are over and the message is sent on
relayTimer(i) ==
    /\ Open /\ i \in 1..Len(channel.requests)
    /\ channel.requests[i].relay = "delay"
    /\ channel' = [channel EXCEPT !.requests[i].relay = "sent",
                                  !.requests[i].relayed = "delivered"]
    /\ UNCHANGED <<sessionVars, segmentation, grouping>>

\* background.ts, lines 932-935 and 956-959: the relay passes the host's response to the page
relayResponse(i) ==
    /\ Open /\ i \in 1..Len(channel.requests)
    /\ LET req == channel.requests[i]
       IN  /\ req.relay = "sent" /\ req.relayed \in {"embedding", "error"}
           /\ channel' = [channel EXCEPT !.requests[i] =
                             [Responded(req, req.relayed) EXCEPT !.relay = "done",
                                                                 !.relayed = "done"]]
    /\ UNCHANGED <<sessionVars, segmentation, grouping>>

\* no listener keeps the port of the request open
PortClosed(req) == req.direct = "none" /\ req.relay = "declined"

\* embedding-service.ts, lines 559-611: the callback of sendMessage, which leaves the backend
\* when the response is an error
sendMessageCallback(i) ==
    /\ Open /\ i \in 1..Len(channel.requests)
    /\ LET req == channel.requests[i]
           response == IF PortClosed(req) THEN "lastError" ELSE req.response
       IN  /\ req.replies = 0 /\ response # "none"
           /\ channel' =
                 [channel EXCEPT !.requests[i].replies = 1,
                                 !.requests[i].response = response,
                                 !.isBackgroundModelAvailable =
                                     IF response = "embedding" THEN @ ELSE FALSE]
    /\ UNCHANGED <<sessionVars, segmentation, grouping>>

HostInit ==
    /\ page = "distinct" /\ Closed
    /\ segmentation = NotSegmenting /\ grouping = NotGrouping
    /\ \E documentId \in Bool : channel = Channel(documentId, FALSE, 1)

HostNext ==
    \/ createOffscreenDocument
    \/ modelLoaded
    \/ modelLoadFailed
    \/ browserRestarted
    \/ storageCheck
    \/ getModelStatus
    \/ sendMessage
    \/ \E i \in 1..MaxRequests : offscreenListener(i)
    \/ \E i \in 1..MaxRequests : offscreenListenerRelayed(i)
    \/ \E i \in 1..MaxRequests : offscreenInference(i)
    \/ \E i \in 1..MaxRequests : offscreenInferenceRelayed(i)
    \/ \E i \in 1..MaxRequests : backgroundListener(i)
    \/ \E i \in 1..MaxRequests : backgroundChecked(i)
    \/ \E i \in 1..MaxRequests : relayTimer(i)
    \/ \E i \in 1..MaxRequests : relayResponse(i)
    \/ \E i \in 1..MaxRequests : sendMessageCallback(i)

HostSpec == HostInit /\ [][HostNext]_vars

(***************************************************************************)
(* A session that has become ready, on pages whose paragraphs the          *)
(* segmenter has cut into several chunks: processChunks cuts a text longer  *)
(* than maxChunkLength into pieces, and every piece is found again in the   *)
(* paragraph it came from.  A short page has up to MaxPieces chunks; a long *)
(* page has one chunk more than a result list can hold.  A piece whose text *)
(* is not on the page stands for text that the page has taken away since.   *)
(***************************************************************************)
Piece == <<"b">>
Pieces == {TextA, TextB, Piece}

ShortLists == UNION {[1..n -> Pieces] : n \in 0..MaxPieces}
LongLists == {[i \in 1..(MaxResults + 1) |-> IF i = k THEN TextA ELSE Piece] :
                 k \in {1, MaxResults + 1}}
ChunkLists == ShortLists \cup LongLists

\* processChunks: the chunks of the first segmentation, numbered as generateChunkId does
ChunksOf(texts) ==
    [i \in 1..Len(texts) |-> [id |-> <<1, i>>, text |-> texts[i], element |-> NoElement]]

\* the state that startProcessingContent leaves when the local model was used
\* and the embedding of the chunk `lacking` has failed (0: none has)
ReadyInit ==
    /\ page \in Pages \cup {COLLAPSED}
    /\ segmentation = NotSegmenting /\ Aside
    /\ dom = [h \in HostSet |-> CharTokens(HostText(page, h))]
    /\ hostAttempted = {} /\ inlineBackground = HostBackground
    /\ highlightStyles = FALSE /\ spanStyles = 0
    /\ \E texts \in ChunkLists, lacking \in 0..1 :
          LET embedded == {i \in 1..Len(texts) : i # lacking} IN
          /\ lacking <= Len(texts)
          /\ pageChunks = ChunksOf(texts)
          /\ chunkEmbeddings = [id \in {<<1, i>> : i \in embedded} |-> ModelOutput(texts[id[2]])]
          /\ embeddingCache = [key \in {getCacheKey(texts[i]) : i \in embedded} |->
                                  ModelOutput(CHOOSE t \in Pieces : getCacheKey(t) = key)]
          /\ served = {texts[i] : i \in embedded}
          /\ localFailed = (lacking # 0)
          /\ runs = <<[pc |-> "done", chunks |-> IF texts = <<>> THEN <<>> ELSE ChunksOf(texts),
                       i |-> IF texts = <<>> THEN 0
                             ELSE batchSize * ((Len(texts) - 1) \div batchSize),
                       outstanding |-> 0, epoch |-> 0]>>
          /\ embeddingGenerationProgress = IF texts = <<>> THEN 0 ELSE 100
    /\ isSearchVisible = TRUE /\ isSearching = FALSE /\ isEmbeddingReady = TRUE
    /\ currentResults = <<>> /\ currentResultIndex = -1 /\ currentQuery = <<>>
    /\ modelLoadStarted = TRUE /\ modelLoadComplete = TRUE
    /\ chunkExtractionComplete = TRUE
    /\ statusIndicator = "" /\ embeddingStatus = "Ready for search!"
    /\ embeddingModel = TRUE /\ isModelLoading = FALSE /\ modelLoadingPromise = "resolved"
    /\ isBackgroundModelAvailable = FALSE /\ checkedBackgroundModel = TRUE
    /\ isUsingBackgroundModel = FALSE
    /\ currentModelLoadingProgress = 100 /\ modelLoadingProgressCallback = TRUE
    /\ reports = <<100>> /\ signalCount = 0 /\ backendReady = FALSE
    /\ searches = <<>> /\ calls = {} /\ jobs = <<>>
    /\ epoch = 0 /\ remoteFailed = FALSE /\ embedRejected = FALSE

\* the Enter key or the arrow in a session that stays open; a second search
\* is explored on short pages that hold no more markers than navigation leaves
readyQuery(q) ==
    /\ searches = <<>> \/ (Len(pageChunks) <= MaxPieces /\ MarkerCount(dom) <= MaxSpans + 1)
    /\ performSearch(q, MaxReadySearches)

ReadyNext ==
    \/ \E q \in Queries : readyQuery(q)
    \/ generateEmbedding
    \/ \E c \in calls, ok \in Bool : localInferenceDone(c, ok)
    \/ searchSettled
    \/ \E direction \in Directions : navigateResults(direction)
    \/ \E index \in 0..(MaxResults - 1) : resultClicked(index)
    \/ inputCleared

ReadySpec == ReadyInit /\ [][ReadyNext]_vars

\* a session that is ready, in which texts of more than 100 characters are embedded: the
\* queries the user submits
CacheNext ==
    \/ \E q \in LongQueries : readyQuery(q)
    \/ generateEmbedding
    \/ \E c \in calls, ok \in Bool : localInferenceDone(c, ok)
    \/ searchSettled

CacheSpec == ReadyInit /\ [][CacheNext]_vars

(***************************************************************************)
(* Properties.                                                             *)
(***************************************************************************)
SessionState == <<chunkEmbeddings, isEmbeddingReady, currentResults, currentResultIndex, dom>>

\* the epoch in which the operation that owns a continuation was started
OperationEpoch(j) == IF j.t = "run" THEN runs[j.n].epoch ELSE searches[j.n].epoch
StaleCompletion == jobs # <<>> /\ OperationEpoch(Head(jobs)) < epoch

\* C1: a continuation of a processing run or of a search that was started
\* before the search UI was last closed leaves the chunk embeddings, the
\* readiness flag, the result list, the cursor and the page as they are.
C1_StaleCompletionsDiscarded == [][StaleCompletion => UNCHANGED SessionState]_vars

RemoteCalls(cs) == {c \in cs : c.stage = "remote"}

\* C2: once a call to the backend has failed, no step sends another embed
\* request to the backend.
C2_NoRemoteAfterFailure == [][remoteFailed => RemoteCalls(calls') \subseteq calls]_vars

\* the calls of generateEmbedding that a step starts and that reach a model
NewInferences ==
    {c \in calls' : /\ c.stage \in {"remote", "infer"}
                    /\ ~\E b \in calls : b.t = c.t /\ b.n = c.n /\ b.id = c.id}

\* C3: a call of generateEmbedding for a text that an earlier call has
\* returned a vector for starts no inference, remote or local.
C3_SecondEmbedFromCache == [][\A c \in NewInferences : c.text \notin served]_vars

ProcessingCompleted == \E r \in 1..Len(runs) : runs[r].pc = "done"

\* C4: once a processing run has completed, no step starts another one, so
\* the page is not segmented and embedded again.
C4_CompletedSetReused == [][ProcessingCompleted => Len(runs') = Len(runs)]_vars

\* C5: a query is accepted only when the processing that the last opening of
\* the search UI started has completed.
C5_QueryRejectedWhileProcessing ==
    [][Len(searches') > Len(searches) => runs[Len(runs)].pc = "done"]_vars

\* The phase of the session as the flags of the controller show it.  An error
\* is a message: after a failed search the session takes the next query as a
\* ready one does, after a failed model load it stays as it is while loading.
Phase ==
    IF ~isSearchVisible THEN "Idle"
    ELSE IF isSearching THEN "Searching"
    ELSE IF isEmbeddingReady THEN "Ready"
    ELSE IF ~chunkExtractionComplete THEN "Extracting"
    ELSE "Embedding"

PhaseEdges ==
    { <<"Idle", "Extracting">>, <<"Idle", "Embedding">>, <<"Extracting", "Embedding">>,
      <<"Embedding", "Ready">>, <<"Ready", "Searching">>, <<"Searching", "Ready">> }

\* C6: the phase changes only along Idle, Extracting, LoadingModel/Embedding,
\* Ready, Searching, Ready or Error, or back to Idle; Searching is entered
\* only from Ready.
C6_PhaseOrder ==
    [][Phase' = Phase \/ Phase' = "Idle" \/ <<Phase, Phase'>> \in PhaseEdges]_vars

\* C7: a search that has started ends: the searching flag is cleared.
C7_SearchEnds == isSearching ~> ~isSearching

\* a processing run waits for the backend: for its status, or for a vector
AwaitsBackend(r) ==
    /\ r <= Len(runs)
    /\ \/ runs[r].pc \in {"debug", "status"}
       \/ \E c \in RemoteCalls(calls) : c.t = "run" /\ c.n = r

\* C8: no processing run waits for the backend forever.
C8_BackendCallsGivenUp == \A r \in 1..MaxShows : AwaitsBackend(r) ~> ~AwaitsBackend(r)

\* C9: with all highlights removed, the text of every paragraph of the page
\* is what it was before the first highlight.
C9_TextRestored ==
    \A h \in HostSet : TextContent(removeHighlights(dom)[h]) = HostText(page, h)

\* markers are in the page, after a search and a step to the second result
C9_Witness ==
    /\ MarkerCount(dom) > 1
    /\ currentResultIndex = 1
    /\ page = "distinct"

ActiveMarkers(toks) == Len(SelectSeq(toks, LAMBDA tok : tok = OpenTag(ACTIVE)))

\* C10: at most one marker of the page carries the active emphasis.
C10_OneActiveMarker ==
    ActiveMarkers(dom[Hosts[1]]) + ActiveMarkers(dom[Hosts[2]]) <= 1

\* the host document as removeHighlights would leave it now
AfterRemoval ==
    [content |-> removeHighlights(dom),
     attempted |-> {},
     background |-> inlineBackground \ hostAttempted,
     styles |-> (IF highlightStyles THEN 1 ELSE 0) + spanStyles]

\* C11: with all highlights removed the host document is what it was before
\* the first search: no marker, no attribute, no change of an inline style
\* and no style element is left from highlighting.
C11_OnlyMarkersChange ==
    AfterRemoval = [content |-> [h \in HostSet |-> CharTokens(HostText(page, h))],
                    attempted |-> {},
                    background |-> HostBackground,
                    styles |-> 0]

\* the results of the query that was searched last are shown
ResultsShown == currentResults # <<>> /\ ~isSearching

\* the embedding of the query that was searched last
QueryEmbedding == ModelOutput(currentQuery)

\* C12: every result has a similarity above 0.3: 10 * dot > 3 * sqrt(nn).
C12_ScoresAboveThreshold ==
    \A i \in 1..Len(currentResults) :
        LET sc == currentResults[i].score
        IN  sc.nn > 0 /\ sc.dot > 0 /\ 10 * 10 * sc.dot * sc.dot > 3 * 3 * sc.nn

\* a search has returned results and has left out an embedded chunk for its score
C12_Witness ==
    /\ ResultsShown
    /\ \E i \in 1..Len(pageChunks) :
          /\ pageChunks[i].id \in DOMAIN chunkEmbeddings
          /\ LET sc == cosineSimilarity(QueryEmbedding, chunkEmbeddings[pageChunks[i].id])
             IN  10 * 10 * sc.dot * sc.dot <= 3 * 3 * sc.nn

\* the ranked chunks that resolve to a visible element of the page as it was
\* before the first highlight
ValidMatches ==
    LET ranked == RankChunks(QueryEmbedding, pageChunks, chunkEmbeddings)
        resolved == findAndValidateElements(
                        page, [h \in HostSet |-> CharTokens(HostText(page, h))], ranked)
    IN  {resolved[i] : i \in {k \in 1..Len(resolved) :
                                 resolved[k].element # NoElement /\ resolved[k].visible}}

ReturnedIds == {currentResults[i].chunk.id : i \in 1..Len(currentResults)}

\* C13: at most 10 results are returned, and no chunk above the threshold
\* that resolves to a visible element and was left out has a higher score
\* than a chunk that was returned.
C13_TopKByScore ==
    /\ Len(currentResults) <= MaxResults
    /\ ResultsShown =>
          \A out \in ValidMatches : \A i \in 1..Len(currentResults) :
              out.chunk.id \notin ReturnedIds => ~ScoreLess(currentResults[i].score, out.score)

\* a list is in non-increasing score order, with equal scores in chunk order
ScoreOrdered(list) ==
    \A i, j \in 1..Len(list) :
        i < j => /\ ~ScoreLess(list[i].score, list[j].score)
                 /\ ~ScoreLess(list[j].score, list[i].score)
                       => list[i].chunk.id[2] < list[j].chunk.id[2]

C15_ResultsTopToBottom ==
    /\ \A i \in 1..Len(currentResults) :
          currentResults[i].host \in HostSet
             => currentResults[i].verticalPosition = HostTop(currentResults[i].host)
    /\ \A i, j \in 1..Len(currentResults) :
          i < j => currentResults[i].verticalPosition <= currentResults[j].verticalPosition

\* the cursor is on the second result, which is lower on the page and has the
\* higher score
C15_Witness ==
    /\ ResultsShown /\ currentResultIndex = 1
    /\ currentResults[1].verticalPosition < currentResults[2].verticalPosition
    /\ ScoreLess(currentResults[1].score, currentResults[2].score)

\* C16: every result has an element that is in the page and has a size.
C16_ResultsResolvedAndVisible ==
    \A i \in 1..Len(currentResults) :
        /\ currentResults[i].element \in HostSet
        /\ currentResults[i].visible
        /\ ~ZeroSize(page, currentResults[i].element)

\* C17: while the model loads, a value that the progress callback receives
\* is not below the value it received before.
C17_ProgressNeverDecreases ==
    [][reports' # reports =>
          /\ \A i \in 2..Len(reports') : reports'[i - 1] <= reports'[i]
          /\ reports # <<>> /\ reports' # <<>> => reports[Len(reports)] <= reports'[1]]_vars

\* loading has completed: the local model is loaded, or the backend has said
\* that its model is
LoadingCompleted == embeddingModel \/ backendReady

C19_KnownShapesNormalized ==
    [][\A c \in calls :
          LET v == ModelOutput(c.text)
          IN  \A reply \in EmbedReplies(v) :
                 backgroundReply(c, reply) =>
                    /\ (reply \in NumericShapes(v) /\ reply.embedding.kind # "indexed")
                          => jobs' = <<SettledJob(c.t, c.n, c.id, c.text, TRUE, v)>>
                    /\ (reply.defined /\ ~reply.error /\ jobs' # <<>> /\ ~jobs'[1].ok)
                          => reply \in MalformedShapes]_vars

\* C20: no reply of the backend leaves the embed request without an outcome:
\* the callback does not throw, and the request returns a vector or an error.
C20_EveryReplySettles == \A c \in calls : c.stage # "thrown"

\* C21: once the backend has rejected a request to embed a chunk, no later
\* call of generateEmbedding is sent to the backend: the local model serves it.
C21_LocalAfterRejectedEmbed == [][embedRejected => RemoteCalls(calls') \subseteq calls]_vars

\* C22: when the local model has failed as well, the session does not become
\* ready with chunks of which none has an embedding.
C22_NoReadyWithoutEmbeddings ==
    [][(~isEmbeddingReady /\ isEmbeddingReady' /\ localFailed /\ pageChunks # <<>>)
          => chunkEmbeddings' # <<>>]_vars

\* the requests to embed a chunk that have been issued and have not settled
OutstandingChunkRequests == {c \in calls : c.t = "run"}

\* C23: at most batchSize requests to embed a chunk are outstanding at a time.
C23_BatchesOneAfterAnother == Cardinality(OutstandingChunkRequests) <= batchSize

\* the text that is segmented is longer than maxChunkLength and is split
SplitRun == Len(segmentation.text) > segmentation.options.maxChunkLength

\* C24: the text of every chunk is at most maxChunkLength long and at least
\* minChunkLength long; only the last chunk of a text that was split may be
\* shorter.
C24_ChunkLengthWithinBounds ==
    LET sg == segmentation IN
    \A i \in 1..Len(sg.chunks) :
        /\ Len(sg.chunks[i].text) <= sg.options.maxChunkLength
        /\ \/ Len(sg.chunks[i].text) >= sg.options.minChunkLength
           \/ SplitRun /\ sg.pc = "done" /\ i = Len(sg.chunks)

\* a text has been split into two chunks or more and its end has been reached
C24_Witness ==
    /\ SplitRun /\ segmentation.pc = "done" /\ segmentation.call = 1
    /\ Len(segmentation.chunks) >= 2
    /\ segmentation.options.overlapPercentage = 0

\* C25: a source whose whole text is shorter than minChunkLength yields
\* exactly one chunk.
C25_SoleFragmentKept ==
    (segmentation.pc = "done"
        /\ Len(segmentation.text) < segmentation.options.minChunkLength)
      => Len(segmentation.chunks) = 1

\* C26: the chunks of a session, those of an earlier segmentation included,
\* have ids that differ from one another.
C26_ChunkIdsUnique ==
    LET alive == segmentation.first \o segmentation.chunks
    IN  \A i \in 1..Len(alive) : \A j \in 1..Len(alive) :
            i # j => alive[i].id # alive[j].id

TextsAndPositions(chunks) ==
    [i \in 1..Len(chunks) |-> [text |-> chunks[i].text, position |-> chunks[i].position]]

C28_EveryRoundAdvances ==
    [][segmentation.pc = "splitting" => segmentation'.startPos > segmentation.startPos]_vars

\* the Enter key or the arrow with the query q in the input
Submitted(q) == \E limit \in {MaxSearches, MaxReadySearches} : performSearch(q, limit)

\* C30: submitting a query whose trimmed length is below 3 makes no embed
\* call and leaves the results, the cursor and the highlights as they were.
C30_ShortQueryChangesNothing ==
    [][\A q \in Queries :
          (Len(Trim(q)) < 3 /\ Submitted(q))
            => UNCHANGED <<calls, jobs, searches, isSearching, currentQuery,
                           currentResults, currentResultIndex, dom, hostVars>>]_vars

\* a short query has been refused while results were shown and highlighted
C30_Witness ==
    /\ statusIndicator = "Enter at least 3 characters to search"
    /\ currentResults # <<>> /\ currentResultIndex >= 0
    /\ MarkerCount(dom) > 0

\* the latest opening of the search UI has gone through startProcessingContent
ActivationFinished == runs # <<>> /\ runs[Len(runs)].pc = "done"

\* C29: on a page without qualifying text the activation ends ready, and a
\* query submitted there ends without an exception and without results.
C29_EmptyPageGraceful ==
    page = EMPTY =>
        /\ ActivationFinished => isEmbeddingReady
        /\ currentResults = <<>> /\ MarkerCount(dom) = 0
        /\ \A c \in calls : c.stage # "thrown"

\* the vectors attached to chunks and those held by the cache
StoredEmbeddings ==
    {chunkEmbeddings[id] : id \in DOMAIN chunkEmbeddings}
        \cup {embeddingCache[key] : key \in DOMAIN embeddingCache}

\* C31: all vectors attached to chunks or cached have the same length, also
\* those taken from a reply of the backend.
C31_OneDimension == \A a, b \in StoredEmbeddings : Len(a) = Len(b)

\* chunks carry vectors taken from replies of the backend, beside cached
\* vectors of the local model
C31_Witness ==
    /\ embedRejected /\ embeddingCache # <<>>
    /\ \E id \in DOMAIN chunkEmbeddings :
          \E i \in 1..Len(pageChunks) :
              pageChunks[i].id = id /\ getCacheKey(pageChunks[i].text) \notin DOMAIN embeddingCache

\* C32: the elements whose texts are joined into one unit have the same
\* parent.
C32_UnitsOfOneParent ==
    grouping.pc # "none" =>
        \A u \in 1..Len(grouping.units) :
            \A a, b \in 1..Len(grouping.units[u]) :
                grouping.elements[grouping.units[u][a]] = grouping.elements[grouping.units[u][b]]

\* a processing run has not come to its end
InProgress(r) == runs[r].pc \notin {"done", "failed"}

\* C33: while the session reports ready, a pass over the present chunks has
\* completed and no processing run is under way.
C33_ReadyMeansProcessed ==
    isEmbeddingReady =>
        /\ \E r \in 1..Len(runs) : runs[r].pc = "done" /\ runs[r].chunks = pageChunks
        /\ \A r \in 1..Len(runs) : ~InProgress(r)

\* C34: while the search UI is closed the page carries no marker and the
\* result list is empty.
C34_ClosedMeansClean ==
    ~isSearchVisible => MarkerCount(dom) = 0 /\ currentResults = <<>>

\* two searches or more have completed, all with success, and the outcome
\* of the one that completed last is shown
SearchesCompleted ==
    /\ Len(searches) >= 2 /\ calls = {} /\ jobs = <<>>
    /\ \A n \in 1..Len(searches) : searches[n].pc = "done"
    /\ statusIndicator \in {"results found", "No results found"}

\* C35: when the searches for two queries have completed, the results shown
\* are those of the query submitted last: each carries its similarity to
\* that query.
C35_LatestQueryWins ==
    SearchesCompleted =>
        \A i \in 1..Len(currentResults) :
            currentResults[i].score
                = cosineSimilarity(ModelOutput(currentQuery),
                                   chunkEmbeddings[currentResults[i].chunk.id])

\* C36: the cursor is -1 exactly when the result list is empty, and is
\* otherwise an index of the list (counted from 0).
C36_CursorWithinResults ==
    /\ currentResultIndex = -1 <=> currentResults = <<>>
    /\ currentResults # <<>> => currentResultIndex \in 0..(Len(currentResults) - 1)

\* the cursor has been moved to the last of several results
C36_Witness ==
    /\ Len(currentResults) >= 2 /\ ~isSearching
    /\ currentResultIndex = Len(currentResults) - 1

\* the texts that the markers with the active emphasis wrap in paragraph h
ActiveMarkerTexts(h) ==
    {Trim(TextContent(SubSeq(dom[h], k, MatchClose(dom[h], k)))) :
        k \in {n \in 1..Len(dom[h]) : dom[h][n] = OpenTag(ACTIVE)}}

\* C37: while the cursor is on a result, a marker with the active emphasis
\* is in the page and wraps the text of that result.
C37_CursorResultIsActive ==
    (currentResults # <<>> /\ currentResultIndex >= 0) =>
        LET r == currentResults[currentResultIndex + 1]
        IN  \E h \in HostSet : Trim(CollapseWS(r.chunk.text)) \in ActiveMarkerTexts(h)

\* the requests whose messages have all been handled and answered
Settled(req) ==
    /\ req.replies = 1
    /\ req.direct \in {"none", "done"}
    /\ req.relay \in {"declined", "done"}

\* C38: each embed request the page sends causes exactly one inference in the model host and
\* exactly one reply to the page, although the relay and the host listen on the same channel
C38_OneInferenceOneReply ==
    Open => \A i \in 1..Len(channel.requests) :
               LET req == channel.requests[i]
               IN  /\ req.inferences <= 1 /\ req.replies <= 1
                   /\ Settled(req) => req.inferences = 1

\* C39: the Provider selects the remote backend only when the backend's model is ready at that
\* moment; the stored readiness flag of an earlier run never makes it select a backend that is
\* loading or has failed
C39_SelectedMeansReady ==
    [][(Open /\ ~channel.isBackgroundModelAvailable /\ channel'.isBackgroundModelAvailable)
          => (channel.document /\ channel.isModelReady)]_vars

\* C40: embed(T) returns the vector computed from T itself, also when the cache holds the
\* vector of another text with the same first 100 characters
C40_EmbedReturnsOwnVector ==
    (HeadIs("settled") /\ Head(jobs).ok) => Head(jobs).vec = ModelOutput(Head(jobs).text)

====
